---- MODULE Spec2Model ----
(***************************************************************************)
(* Model of the Data-Server core of Project-Samridhha:                     *)
(*   detection/spike_detector.py   SpikeDetector (pure threshold checks)   *)
(*   detection/alert_manager.py    AlertManager (subscriptions, cooldown)  *)
(*   engine/market_engine.py       MarketEngine (scheduler thread)         *)
(*   providers/simulator.py        SimulatorProvider (replay tick source)  *)
(*                                                                         *)
(* One group of variables per component, and one specification per         *)
(* component; a specification leaves the other components' variables at    *)
(* their constructed values.                                               *)
(*                                                                         *)
(* Numbers.  Prices, volumes and thresholds are Python floats in the       *)
(* source; the model uses integers and decides every comparison of a       *)
(* quotient by cross-multiplication, i.e. in exact arithmetic.             *)
(***************************************************************************)
EXTENDS Integers, Sequences, FiniteSets, TLC

VARIABLES
    \* ---- SpikeDetector call under test (pure functions) ----
    det_value,       \* current_price / current_volume argument
    det_reference,   \* prev_close / avg_volume argument
    det_threshold,   \* threshold_pct / threshold_multiplier argument (None = omitted)
    det_tick,        \* tick argument of analyze_tick (None outside its specification)
    det_volume_threshold, \* volume_threshold_multiplier argument of analyze_tick
    det_out,         \* <<operation, result>> of the last call, <<>> before any call
    \* ---- AlertManager ----
    subscriptions,     \* self._subscriptions: dict user_id -> dict symbol -> AlertSubscription
    cooldowns,         \* self._cooldowns: dict (user_id, symbol, alert_type) -> last alert time
    cooldown_seconds,  \* self._cooldown_seconds
    alert_listeners,   \* self._alert_listeners
    clock,             \* the value time.time() returns now
    pt_pc,             \* position of the process_ticks call: idle, loop, check, set, return
    pt_ticks,          \* its argument: dict symbol -> tick
    pt_pos,            \* index of the subscription being evaluated, in iteration order
    pt_alerts,         \* alerts of that subscription still to be gated
    pt_triggered,      \* its local list `triggered` (the return value once idle again)
    pt_notified,       \* listener invocations of this call, with their outcome
    \* ---- history of the alert manager (not program state) ----
    last_emit,         \* key -> clock value at which the last alert of the key was emitted
    prev_emit,         \* key -> clock value at which the alert before that one was emitted
    last_suppressed,   \* None, or <<key>> of the latest trigger the cooldown of an
                       \* emitted alert suppressed, until that key emits again
    \* ---- MarketEngine ----
    running,           \* self._running
    thread,            \* self._thread: None or <<id of the Thread object>>
    was_open,          \* self._was_open
    tick_listeners,    \* self._tick_listeners
    worker_pc,         \* per Thread: unborn, test, cycle, sleep, done
    caller_pc,         \* per calling thread: idle, start (past the check), join
    join_target,       \* per calling thread: the Thread its stop() joins
    \* ---- history of the engine (not program state) ----
    cyc,               \* None, or <<log of the cycle a worker has just run>>
    last_obs,          \* the is_open value the latest successful clock query gave
    last_event,        \* status of the latest MarketStatusEvent emitted, or "none"
    after_failure,     \* the latest cycle ended in the except branch
    \* ---- subscription call under observation ----
    sub_out,           \* None, or <<the latest add_subscription / remove_subscription call>>
    \* ---- SimulatorProvider ----
    sim_history,       \* what get_historical_data returns: symbol -> list of days
    sim_replay,        \* self._replay: symbol -> {window, day_index, tick_index, ticks_per_day}
    sim_state,         \* self._current_state: symbol -> TickState
    sim_subscribers,   \* self._subscribers: symbol -> list of callbacks
    sim_out,           \* None, or <<the latest generate_tick / reset_session call>>
    \* ---- pure function call under test ----
    fn_args,           \* the arguments of the call
    fn_out,            \* None, or <<what the call returned>>
    \* ---- a request thread reading a TickState while the worker writes it ----
    wr_call,           \* None, or <<name of the provider call the worker is in>>
    wr_todo,           \* the writes that call has still to make, <<field, value>>
    wr_goal,           \* None, or <<cursors and TickStates the call ends with>>
    completed,         \* symbol -> TickState as the latest completed update left it
    rd_symbol,         \* None, or <<the symbol whose dict the reader holds>>
    rd_todo,           \* the fields the reader has still to read
    rd_seen,           \* the values it has read, <<field, value>>
    rd_base,           \* the completed TickStates of that symbol since the read began
    \* ---- history of the scheduler driving the provider ----
    ses_advances,      \* None, or <<symbol -> advances of day_index in this session, by path>>
    ses_calls,         \* the calls the latest cycle made to the provider, in order
    \* ---- history of the provider's current day ----
    day_seen,          \* symbol -> the day's open and the prices generated for the day so far
    \* ---- on_tick_batch of run.py around process_ticks ----
    batch,             \* None, or <<iterators and account of the on_tick_batch call in progress>>
    batch_out          \* None, or <<account of the latest on_tick_batch call that ended>>

detVars == <<det_value, det_reference, det_threshold, det_tick, det_volume_threshold, det_out>>

ptVars == <<pt_pc, pt_ticks, pt_pos, pt_alerts, pt_triggered, pt_notified>>

histVars == <<last_emit, prev_emit, last_suppressed>>

amVars == <<subscriptions, cooldowns, cooldown_seconds, alert_listeners, clock,
            ptVars, histVars>>

engVars == <<running, thread, was_open, tick_listeners, worker_pc, caller_pc, join_target>>

engHist == <<cyc, last_obs, last_event, after_failure>>

simVars == <<sim_history, sim_replay, sim_state, sim_subscribers, sim_out>>

fnVars == <<fn_args, fn_out>>

rdVars == <<wr_call, wr_todo, wr_goal, completed, rd_symbol, rd_todo, rd_seen, rd_base>>

sesVars == <<ses_advances, ses_calls>>

dayVars == <<day_seen>>

wireVars == <<batch, batch_out>>

vars == <<detVars, amVars, engVars, engHist, sub_out, simVars, fnVars, rdVars, sesVars, dayVars, wireVars>>

\* Optional values: Python's None is the empty tuple, a present value v is <<v>>.
None == <<>>
Some(v) == <<v>>

Abs(x) == IF x < 0 THEN -x ELSE x

(***************************************************************************)
(* Bounds of the detector inputs.                                          *)
(***************************************************************************)
MaxPrice == 26
MaxThreshold == 5

DetValues == 0..MaxPrice
DetReferences == (-1)..MaxPrice
DetThresholds == {None} \cup {Some(t) : t \in 0..MaxThreshold}

(***************************************************************************)
(* SpikeDetector                                                           *)
(***************************************************************************)
\* SpikeDetector.__init__ defaults (Config.DEFAULT_PRICE_THRESHOLD_PCT = 3.0,
\* Config.DEFAULT_VOLUME_THRESHOLD_MULTIPLIER = 2.0).
default_price_threshold_pct == 3
default_volume_threshold_multiplier == 2

\* Python's `a or b` on an Optional[float]: None and 0 (0.0) are both falsy.
PyOr(a, b) == IF a = None \/ a[1] = 0 THEN b ELSE a[1]

\* A mutant of PyOr: only a missing argument falls back to the default.
PyOrNoneOnly(a, b) == IF a = None THEN b ELSE a[1]

\* SpikeAlert, without the wall-clock timestamp. magnitude is the exact
\* quotient <<numerator, denominator>>.
SpikeAlert(symbol, alert_type, direction, magnitude, current_value, threshold, reference_value) ==
    [symbol |-> symbol, alert_type |-> alert_type, direction |-> direction,
     magnitude |-> magnitude, current_value |-> current_value,
     threshold |-> threshold, reference_value |-> reference_value]

\* A mutant of check_price_spike without the test of prev_close: the division
\* by 0 raises.
check_price_spike_unguarded(symbol, current_price, prev_close, threshold_pct) ==
    IF prev_close = 0 THEN Some("ZeroDivisionError")
    ELSE LET threshold == PyOr(threshold_pct, default_price_threshold_pct)
             pct_num   == (current_price - prev_close) * 100
         IN  IF Abs(pct_num) * (IF prev_close < 0 THEN -1 ELSE 1) >= threshold * prev_close
             THEN Some(SpikeAlert(symbol, "price",
                                  IF pct_num > 0 THEN "up" ELSE "down",
                                  <<Abs(pct_num), prev_close>>,
                                  current_price, threshold, prev_close))
             ELSE None

\* SpikeDetector.check_price_spike.
\* change_pct = ((current_price - prev_close) / prev_close) * 100.0 is kept as
\* the quotient pct_num / prev_close with prev_close > 0, so that
\* abs(change_pct) >= threshold  <=>  |pct_num| >= threshold * prev_close.
check_price_spike(symbol, current_price, prev_close, threshold_pct) ==
    IF prev_close <= 0 THEN None
    ELSE LET threshold == PyOr(threshold_pct, default_price_threshold_pct)
             pct_num   == (current_price - prev_close) * 100
         IN  IF Abs(pct_num) >= threshold * prev_close
             THEN Some(SpikeAlert(symbol, "price",
                                  IF pct_num > 0 THEN "up" ELSE "down",
                                  <<Abs(pct_num), prev_close>>,
                                  current_price, threshold, prev_close))
             ELSE None

\* SpikeDetector.check_volume_spike.
\* volume_ratio = current_volume / avg_volume with avg_volume > 0, so that
\* volume_ratio >= threshold  <=>  current_volume >= threshold * avg_volume.
check_volume_spike(symbol, current_volume, avg_volume, threshold_multiplier) ==
    IF avg_volume <= 0 THEN None
    ELSE LET threshold == PyOr(threshold_multiplier, default_volume_threshold_multiplier)
         IN  IF current_volume >= threshold * avg_volume
             THEN Some(SpikeAlert(symbol, "volume", "up",
                                  <<current_volume, avg_volume>>,
                                  current_volume, threshold, avg_volume))
             ELSE None

\* A mutant of analyze_tick: the volume check runs only when the price check
\* gave nothing (elif).
analyze_tick_first_only(tick, price_threshold_pct, volume_threshold_multiplier) ==
    LET price_alert  == check_price_spike(tick.symbol, tick.price, tick.prev_close,
                                          price_threshold_pct)
        volume_alert == check_volume_spike(tick.symbol, tick.volume, tick.avg_volume,
                                           volume_threshold_multiplier)
    IN  IF price_alert # None THEN price_alert ELSE volume_alert

\* SpikeDetector.analyze_tick: both checks on one tick, price alert first.
\* tick.get("prev_close", tick.get("open", 0)), tick.get("volume", 0) and
\* tick.get("avg_volume", 1) are the fields themselves: every tick of the
\* model carries them.
analyze_tick(tick, price_threshold_pct, volume_threshold_multiplier) ==
    LET price_alert  == check_price_spike(tick.symbol, tick.price, tick.prev_close,
                                          price_threshold_pct)
        volume_alert == check_volume_spike(tick.symbol, tick.volume, tick.avg_volume,
                                           volume_threshold_multiplier)
    IN  price_alert \o volume_alert

(***************************************************************************)
(* Python dicts keep insertion order: a dict is a sequence of <<key,       *)
(* value>> pairs with distinct keys.                                       *)
(***************************************************************************)
DictKeys(d) == {d[i][1] : i \in 1..Len(d)}

DictHas(d, k) == k \in DictKeys(d)

DictGet(d, k) == d[CHOOSE i \in 1..Len(d) : d[i][1] = k][2]

\* d[k] = v: an existing key keeps its place, a new key goes last.
DictSet(d, k, v) ==
    IF DictHas(d, k)
    THEN [i \in 1..Len(d) |-> IF d[i][1] = k THEN <<k, v>> ELSE d[i]]
    ELSE Append(d, <<k, v>>)

\* del d[k]
DictDel(d, k) == SelectSeq(d, LAMBDA e : e[1] # k)

(***************************************************************************)
(* Bounds and input sets of the alert manager.                             *)
(***************************************************************************)
MaxClock == 4              \* time.time() ranges over 0..MaxClock
MaxAlertListeners == 1     \* on_alert registrations
MaxSubscriptions == 3      \* subscriptions held at one time

Users == {"u1", "u2"}
RawSymbols == {"nabil", "NABIL"}
AlertTypes == {"price", "volume"}

\* str.upper() on the symbols of the model.
upper(s) == IF s = "nabil" THEN "NABIL" ELSE s

Symbols == {upper(s) : s \in RawSymbols}

CooldownKeys == Users \X Symbols \X AlertTypes

\* Thresholds a caller passes to add_subscription.
PriceThresholdInputs == {3}
VolumeThresholdInputs == {2}

\* The ticks of a batch: quiet, a 4 % rise, a 5 % fall with 3 times the
\* average volume.
Tick(symbol, price, prev_close, volume, avg_volume) ==
    [symbol |-> symbol, price |-> price, prev_close |-> prev_close,
     volume |-> volume, avg_volume |-> avg_volume]

TicksOf(symbol) ==
    { Tick(symbol, 100, 100, 10, 10),
      Tick(symbol, 104, 100, 10, 10),
      Tick(symbol, 95, 100, 30, 10) }

\* A batch: dict symbol -> tick over some of the symbols.
TickBatches ==
    UNION { {b \in [S -> UNION {TicksOf(x) : x \in S}] : \A x \in S : b[x] \in TicksOf(x)}
            : S \in SUBSET Symbols }

(***************************************************************************)
(* AlertManager                                                            *)
(***************************************************************************)
AlertSubscription(user_id, symbol, price_threshold_pct, volume_threshold_multiplier) ==
    [user_id |-> user_id, symbol |-> symbol,
     price_threshold_pct |-> price_threshold_pct,
     volume_threshold_multiplier |-> volume_threshold_multiplier,
     enabled |-> TRUE]

RECURSIVE FlattenSubs(_)
\* The order in which process_ticks visits the subscriptions:
\* for user_id, user_subs in items(): for symbol, sub in user_subs.items().
FlattenSubs(d) ==
    IF d = <<>> THEN <<>>
    ELSE [j \in 1..Len(d[1][2]) |-> d[1][2][j][2]] \o FlattenSubs(Tail(d))

NumSubscriptions == Len(FlattenSubs(subscriptions))

\* Config.ALERT_COOLDOWN_SECONDS is read from the environment (default 300);
\* the model runs the manager with a cooldown of a few clock units.
ALERT_COOLDOWN_SECONDS == 2

\* Mutants of _is_in_cooldown: the gate is always open; the window is closed
\* at its end (<= for <).
is_in_cooldown_never(key, now) == FALSE

is_in_cooldown_inclusive(key, now) ==
    LET last_time == IF key \in DOMAIN cooldowns THEN cooldowns[key] ELSE 0
    IN  (now - last_time) <= cooldown_seconds

\* A mutant of _is_in_cooldown: one clock per (user_id, symbol), whatever the
\* alert type.
is_in_cooldown_any_type(key, now) ==
    LET same == {k \in DOMAIN cooldowns : k[1] = key[1] /\ k[2] = key[2]}
    IN  \/ (same = {} /\ now < cooldown_seconds)
        \/ \E k \in same : (now - cooldowns[k]) < cooldown_seconds

\* AlertManager._is_in_cooldown at clock value now.
is_in_cooldown(key, now) ==
    LET last_time == IF key \in DOMAIN cooldowns THEN cooldowns[key] ELSE 0
    IN  (now - last_time) < cooldown_seconds

\* A mutant of _set_cooldown: an existing entry is kept (setdefault).
set_cooldown_keep_first(key, now) ==
    [k \in DOMAIN cooldowns \cup {key} |->
        IF k \in DOMAIN cooldowns THEN cooldowns[k] ELSE now]

\* AlertManager._set_cooldown at clock value now: the dict after the call.
set_cooldown(key, now) ==
    [k \in DOMAIN cooldowns \cup {key} |-> IF k = key THEN now ELSE cooldowns[k]]

\* AlertManager.on_alert
OnAlert ==
    /\ Len(alert_listeners) < MaxAlertListeners
    /\ alert_listeners' = Append(alert_listeners, Len(alert_listeners) + 1)
    /\ UNCHANGED <<subscriptions, cooldowns, cooldown_seconds, clock, ptVars, histVars>>

\* A mutant of add_subscription: an existing subscription keeps its volume
\* threshold (an update that merges).
AddSubscriptionMerging(user_id, raw_symbol, price_threshold_pct, volume_threshold_multiplier) ==
    LET symbol    == upper(raw_symbol)
        with_user == IF DictHas(subscriptions, user_id) THEN subscriptions
                     ELSE DictSet(subscriptions, user_id, <<>>)
        old       == DictGet(with_user, user_id)
        sub       == AlertSubscription(user_id, symbol, price_threshold_pct,
                                       IF DictHas(old, symbol)
                                       THEN DictGet(old, symbol).volume_threshold_multiplier
                                       ELSE volume_threshold_multiplier)
        result    == DictSet(with_user, user_id, DictSet(old, symbol, sub))
    IN  /\ Len(FlattenSubs(result)) <= MaxSubscriptions
        /\ subscriptions' = result
        /\ UNCHANGED <<cooldowns, cooldown_seconds, alert_listeners, clock, ptVars, histVars>>

\* AlertManager.add_subscription
AddSubscription(user_id, raw_symbol, price_threshold_pct, volume_threshold_multiplier) ==
    LET symbol    == upper(raw_symbol)
        with_user == IF DictHas(subscriptions, user_id) THEN subscriptions
                     ELSE DictSet(subscriptions, user_id, <<>>)
        sub       == AlertSubscription(user_id, symbol, price_threshold_pct,
                                       volume_threshold_multiplier)
        result    == DictSet(with_user, user_id,
                             DictSet(DictGet(with_user, user_id), symbol, sub))
    IN  /\ Len(FlattenSubs(result)) <= MaxSubscriptions
        /\ subscriptions' = result
        /\ UNCHANGED <<cooldowns, cooldown_seconds, alert_listeners, clock, ptVars, histVars>>

\* A mutant of remove_subscription: the user's whole dict is dropped.
RemoveSubscriptionOfUser(user_id, raw_symbol) ==
    LET symbol == upper(raw_symbol)
    IN  /\ subscriptions' =
              IF DictHas(subscriptions, user_id)
                 /\ DictHas(DictGet(subscriptions, user_id), symbol)
              THEN DictSet(subscriptions, user_id, <<>>)
              ELSE subscriptions
        /\ UNCHANGED <<cooldowns, cooldown_seconds, alert_listeners, clock, ptVars, histVars>>

\* AlertManager.remove_subscription
RemoveSubscription(user_id, raw_symbol) ==
    LET symbol == upper(raw_symbol)
    IN  /\ subscriptions' =
              IF DictHas(subscriptions, user_id)
                 /\ DictHas(DictGet(subscriptions, user_id), symbol)
              THEN DictSet(subscriptions, user_id,
                           DictDel(DictGet(subscriptions, user_id), symbol))
              ELSE subscriptions
        /\ UNCHANGED <<cooldowns, cooldown_seconds, alert_listeners, clock, ptVars, histVars>>

\* time.time() moves on between two statements of the program.
ClockAdvance ==
    /\ clock < MaxClock
    /\ clock' = clock + 1
    /\ UNCHANGED <<subscriptions, cooldowns, cooldown_seconds, alert_listeners,
                   ptVars, histVars>>

(***************************************************************************)
(* AlertManager.process_ticks, in the steps between which the clock can    *)
(* move: entering the call, moving to the next subscription and analysing  *)
(* its tick, the cooldown test of one alert, the emission of one alert.    *)
(***************************************************************************)
AlertKey(user_id, alert) == <<user_id, alert.symbol, alert.alert_type>>

\* The subscription process_ticks is at.
CurrentSub == FlattenSubs(subscriptions)[pt_pos]

\* Where the loop goes once the alert at the head of pt_alerts is dealt with.
AfterAlert == IF Tail(pt_alerts) = <<>> THEN "loop" ELSE "check"

\* process_ticks(ticks) is called: triggered = [].
ProcessTicksCall(ticks) ==
    /\ pt_pc = "idle"
    /\ pt_pc' = "loop"
    /\ pt_ticks' = ticks
    /\ pt_pos' = 0
    /\ pt_alerts' = <<>>
    /\ pt_triggered' = <<>>
    /\ pt_notified' = <<>>
    /\ UNCHANGED <<subscriptions, cooldowns, cooldown_seconds, alert_listeners, clock,
                   histVars>>

\* A mutant of the two tests: the enabled flag is not looked at.
EvaluatedWhateverEnabled(sub, ticks) == sub.symbol \in DOMAIN ticks

\* Lines 116-119: `if not sub.enabled: continue`, `if symbol not in ticks:
\* continue`. The subscriptions that get past both.
Evaluated(sub, ticks) == sub.enabled /\ sub.symbol \in DOMAIN ticks

\* Lines 114-126: the next subscription that is enabled and whose symbol is in
\* the batch is analysed; without one the call returns `triggered`.
ProcessTicksNext ==
    /\ pt_pc = "loop"
    /\ LET flat == FlattenSubs(subscriptions)
           todo == {p \in (pt_pos + 1)..Len(flat) : Evaluated(flat[p], pt_ticks)}
       IN  IF todo = {}
           THEN /\ pt_pc' = "return"
                /\ pt_pos' = 0
                /\ pt_alerts' = <<>>
           ELSE LET p      == CHOOSE q \in todo : \A r \in todo : q <= r
                    alerts == analyze_tick(pt_ticks[flat[p].symbol],
                                           Some(flat[p].price_threshold_pct),
                                           Some(flat[p].volume_threshold_multiplier))
                IN  /\ pt_pos' = p
                    /\ pt_alerts' = alerts
                    /\ pt_pc' = IF alerts = <<>> THEN "loop" ELSE "check"
    /\ UNCHANGED <<pt_ticks, pt_triggered, pt_notified>>
    /\ UNCHANGED <<subscriptions, cooldowns, cooldown_seconds, alert_listeners, clock,
                   histVars>>

\* Lines 129-130: the cooldown gate of the alert at the head of pt_alerts.
ProcessTicksCheck ==
    /\ pt_pc = "check"
    /\ LET key == AlertKey(CurrentSub.user_id, Head(pt_alerts))
       IN  IF is_in_cooldown(key, clock)
           THEN /\ pt_pc' = AfterAlert
                /\ pt_alerts' = Tail(pt_alerts)
                /\ last_suppressed' = IF key \in DOMAIN last_emit THEN Some(key)
                                      ELSE last_suppressed
           ELSE /\ pt_pc' = "set"
                /\ UNCHANGED <<pt_alerts, last_suppressed>>
    /\ UNCHANGED <<pt_ticks, pt_pos, pt_triggered, pt_notified, last_emit, prev_emit>>
    /\ UNCHANGED <<subscriptions, cooldowns, cooldown_seconds, alert_listeners, clock>>

\* A mutant of the notification: the first listener that raises ends it.
NotifyAlertUntilFailure(listeners, raising, user_id, alert) ==
    LET bad == {i \in 1..Len(listeners) : listeners[i] \in raising}
        n   == IF bad = {} THEN Len(listeners)
               ELSE CHOOSE i \in bad : \A j \in bad : i <= j
    IN  [i \in 1..n |-> [listener |-> listeners[i], user_id |-> user_id,
                         alert |-> alert, raised |-> listeners[i] \in raising]]

\* Lines 141-145: every listener is called with (user_id, alert), in list
\* order; one that raises is logged. The calls made, with their outcome.
NotifyAlertListeners(listeners, raising, user_id, alert) ==
    [i \in 1..Len(listeners) |-> [listener |-> listeners[i], user_id |-> user_id,
                                  alert |-> alert, raised |-> listeners[i] \in raising]]

\* Lines 132-145: the cooldown is set, the alert appended to `triggered` and
\* every listener called; a listener that raises is logged and the loop goes on.
ProcessTicksEmit ==
    /\ pt_pc = "set"
    /\ LET user_id == CurrentSub.user_id
           alert   == Head(pt_alerts)
           key     == AlertKey(user_id, alert)
       IN  /\ cooldowns' = set_cooldown(key, clock)
           /\ pt_triggered' = Append(pt_triggered, [user_id |-> user_id, alert |-> alert])
           /\ \E raising \in SUBSET {alert_listeners[i] : i \in 1..Len(alert_listeners)} :
                 pt_notified' = pt_notified \o
                     NotifyAlertListeners(alert_listeners, raising, user_id, alert)
           /\ last_emit' = [k \in DOMAIN last_emit \cup {key} |->
                               IF k = key THEN clock ELSE last_emit[k]]
           /\ prev_emit' = IF key \in DOMAIN last_emit
                           THEN [k \in DOMAIN prev_emit \cup {key} |->
                                    IF k = key THEN last_emit[key] ELSE prev_emit[k]]
                           ELSE prev_emit
           /\ last_suppressed' = IF last_suppressed = Some(key) THEN None
                                 ELSE last_suppressed
    /\ pt_pc' = AfterAlert
    /\ pt_alerts' = Tail(pt_alerts)
    /\ UNCHANGED <<pt_ticks, pt_pos>>
    /\ UNCHANGED <<subscriptions, cooldown_seconds, alert_listeners, clock>>

\* Line 147: `return triggered`; the caller takes the list.
ProcessTicksReturn ==
    /\ pt_pc = "return"
    /\ pt_pc' = "idle"
    /\ pt_ticks' = <<>>
    /\ pt_triggered' = <<>>
    /\ pt_notified' = <<>>
    /\ UNCHANGED <<pt_pos, pt_alerts>>
    /\ UNCHANGED <<subscriptions, cooldowns, cooldown_seconds, alert_listeners, clock,
                   histVars>>

(***************************************************************************)
(* MarketEngine                                                            *)
(*                                                                         *)
(* start() and stop() are called by threads of the program (callers); each *)
(* start() that gets past its check creates one Thread object (a worker)   *)
(* running _run_loop.  A worker moves between the loop test, the body of   *)
(* one cycle (lines 71-88, one step) and the sleep.  The clock, the        *)
(* provider and the listeners are collaborators: what they return, and     *)
(* whether they raise, are inputs of the cycle.                            *)
(***************************************************************************)
MaxThreads == 2            \* Thread objects created in one run
MaxTickListeners == 2      \* on_tick registrations

Threads == 1..MaxThreads
\* the threads of the program that call start() and stop()
Callers == {"main", "other"}

\* hasattr(self.provider, "reset_session"): the provider is the SimulatorProvider.
has_reset_session == TRUE

\* provider.get_available_symbols()
AvailableSymbols == <<"NABIL", "NICA">>

Alive(w) == worker_pc[w] \in {"test", "cycle", "sleep"}

\* MarketEngine.__init__
InitEngineIdle ==
    /\ running = FALSE
    /\ thread = None
    /\ was_open = FALSE
    /\ tick_listeners = <<>>
    /\ worker_pc = [w \in Threads |-> "unborn"]
    /\ caller_pc = [c \in Callers |-> "idle"]
    /\ join_target = [c \in Callers |-> None]
    /\ cyc = None
    /\ last_obs = FALSE
    /\ last_event = "none"
    /\ after_failure = FALSE

\* MarketEngine.on_tick. The program registers its listeners before it starts
\* the engine (run.py, lines 120-141).
OnTick ==
    /\ thread = None
    /\ Len(tick_listeners) < MaxTickListeners
    /\ tick_listeners' = Append(tick_listeners, Len(tick_listeners) + 1)
    /\ UNCHANGED <<running, thread, was_open, worker_pc, caller_pc, join_target, engHist>>

\* MarketEngine.start, line 49: `if self._running: return` (with a warning).
\* A caller that finds the engine stopped goes on to line 53; the model lets
\* it do so only while a Thread object is left for it.
StartCheck(c) ==
    /\ caller_pc[c] = "idle"
    /\ IF running
       THEN UNCHANGED caller_pc
       ELSE /\ Cardinality({w \in Threads : worker_pc[w] = "unborn"}) >
                  Cardinality({d \in Callers : caller_pc[d] = "start"})
            /\ caller_pc' = [caller_pc EXCEPT ![c] = "start"]
    /\ UNCHANGED <<running, thread, was_open, tick_listeners, worker_pc, join_target, engHist>>

\* MarketEngine.start, lines 53-55: the flag is set, a Thread created and started.
StartSpawn(c) ==
    /\ caller_pc[c] = "start"
    /\ \E w \in Threads :
          /\ worker_pc[w] = "unborn"
          /\ \A v \in Threads : worker_pc[v] = "unborn" => w <= v
          /\ worker_pc' = [worker_pc EXCEPT ![w] = "test"]
          /\ thread' = Some(w)
    /\ running' = TRUE
    /\ caller_pc' = [caller_pc EXCEPT ![c] = "idle"]
    /\ UNCHANGED <<was_open, tick_listeners, join_target, engHist>>

\* MarketEngine.stop, lines 63-64: the flag is cleared; with a Thread the
\* caller goes on to join it.
StopSignal(c) ==
    /\ caller_pc[c] = "idle"
    /\ running' = FALSE
    /\ IF thread = None
       THEN UNCHANGED <<caller_pc, join_target>>
       ELSE /\ caller_pc' = [caller_pc EXCEPT ![c] = "join"]
            /\ join_target' = [join_target EXCEPT ![c] = thread]
    /\ UNCHANGED <<thread, was_open, tick_listeners, worker_pc, engHist>>

\* join(timeout=10) returns once the Thread has ended ...
JoinEnded(c) ==
    /\ caller_pc[c] = "join"
    /\ worker_pc[join_target[c][1]] = "done"
    /\ caller_pc' = [caller_pc EXCEPT ![c] = "idle"]
    /\ join_target' = [join_target EXCEPT ![c] = None]
    /\ UNCHANGED <<running, thread, was_open, tick_listeners, worker_pc, engHist>>

\* ... or once 10 seconds have passed with the Thread still running (a cycle
\* and its sleep can take longer than that).
JoinTimeout(c) ==
    /\ caller_pc[c] = "join"
    /\ worker_pc[join_target[c][1]] # "done"
    /\ caller_pc' = [caller_pc EXCEPT ![c] = "idle"]
    /\ join_target' = [join_target EXCEPT ![c] = None]
    /\ UNCHANGED <<running, thread, was_open, tick_listeners, worker_pc, engHist>>

\* A mutant of the loop test: `while True`.
LoopContinuesAlways(flag) == TRUE

\* _run_loop, line 70: `while self._running`.
LoopContinues(flag) == flag

\* The worker arrives at the loop test, as the thread starts or as the sleep
\* that ends a cycle returns, and leaves the loop or goes into a cycle.
LoopTest(w) ==
    /\ worker_pc[w] \in {"test", "sleep"}
    /\ worker_pc' = [worker_pc EXCEPT ![w] = IF LoopContinues(running) THEN "cycle"
                                                                      ELSE "done"]
    /\ cyc' = IF cyc # None /\ cyc[1].worker = w THEN None ELSE cyc
    /\ UNCHANGED <<running, thread, was_open, tick_listeners, caller_pc, join_target,
                   last_obs, last_event, after_failure>>

\* A mutant of the dispatch: the first listener that raises ends the loop.
NotifyUntilFailure(listeners, raising, all_ticks) ==
    LET bad == {i \in 1..Len(listeners) : listeners[i] \in raising}
        n   == IF bad = {} THEN Len(listeners)
               ELSE CHOOSE i \in bad : \A j \in bad : i <= j
    IN  [i \in 1..n |-> <<listeners[i], all_ticks>>]

\* _generate_all_ticks, lines 107-111: every listener is called with the
\* batch, in list order; one that raises is logged. The calls made.
NotifyTickListeners(listeners, raising, all_ticks) ==
    [i \in 1..Len(listeners) |-> <<listeners[i], all_ticks>>]

\* A mutant of the collection: a failing symbol ends the loop over the symbols.
CollectUntilFailure(symbols, ok) ==
    LET bad == {i \in 1..Len(symbols) : symbols[i] \notin ok}
        n   == IF bad = {} THEN Len(symbols)
               ELSE (CHOOSE i \in bad : \A j \in bad : i <= j) - 1
    IN  [i \in 1..n |-> <<symbols[i], [symbol |-> symbols[i]]>>]

\* _generate_all_ticks, lines 98-104: generate_tick is called for every symbol
\* and the ticks of the calls that did not raise are collected, keyed by
\* symbol. ok: the symbols whose call returns a tick.
CollectTicks(symbols, ok) ==
    LET kept == SelectSeq(symbols, LAMBDA x : x \in ok)
    IN  [i \in 1..Len(kept) |-> <<kept[i], [symbol |-> kept[i]]>>]

\* A mutant of the loop's error handling: an exception ends the thread.
AfterCycleFatal(failed) == IF failed THEN "done" ELSE "sleep"

\* _run_loop, lines 90-94: time_mod.sleep(self.tick_interval) ends the try
\* block and the except block alike; the loop goes on.
AfterCycle(failed) == "sleep"

\* _run_loop, lines 71-88 with _emit_market_status and _generate_all_ticks:
\* what one cycle does, from
\*   query          what clock.is_market_open() does: "open", "closed", "raise"
\*   status_raises  clock.get_market_status() raises in _emit_market_status
\*   reset_raises   provider.reset_session() raises
\*   ok             the symbols for which provider.generate_tick returns
\*   raising        the tick listeners that raise
CycleLog(w, query, status_raises, reset_raises, ok, raising) ==
    LET is_open      == query = "open"
        observed     == query # "raise"
        opening      == observed /\ is_open /\ ~was_open
        closing      == observed /\ ~is_open /\ was_open
        emit_failed  == (opening \/ closing) /\ status_raises
        event        == IF emit_failed THEN "none"
                        ELSE IF opening THEN "opened"
                        ELSE IF closing THEN "closed" ELSE "none"
        reset_called == opening /\ ~emit_failed /\ has_reset_session
        reset_failed == reset_called /\ reset_raises
        failed       == ~observed \/ emit_failed \/ reset_failed
        generated    == ~failed /\ is_open
        all_ticks    == IF generated THEN CollectTicks(AvailableSymbols, ok) ELSE <<>>
        dispatched   == generated /\ all_ticks # <<>>
    IN  [worker |-> w, observed |-> observed, is_open |-> is_open,
         prev_obs |-> last_obs, prev_event |-> last_event, event |-> event,
         reset_called |-> reset_called, failed |-> failed,
         was_open_after |-> IF failed THEN was_open ELSE is_open,
         generated |-> generated,
         called |-> IF generated THEN AvailableSymbols ELSE <<>>,
         ok |-> IF generated THEN ok ELSE {},
         all_ticks |-> all_ticks, dispatched |-> dispatched,
         listeners |-> tick_listeners,
         raising |-> IF dispatched THEN raising ELSE {},
         delivered |-> IF dispatched
                       THEN NotifyTickListeners(tick_listeners, raising, all_ticks)
                       ELSE <<>>]

RunCycle(w, query, status_raises, reset_raises, ok, raising) ==
    LET log == CycleLog(w, query, status_raises, reset_raises, ok, raising)
    IN  /\ worker_pc[w] = "cycle"
        /\ was_open' = log.was_open_after
        /\ worker_pc' = [worker_pc EXCEPT ![w] = AfterCycle(log.failed)]
        /\ cyc' = Some(log)
        /\ last_obs' = IF log.observed THEN log.is_open ELSE last_obs
        /\ last_event' = IF log.event # "none" THEN log.event ELSE last_event
        /\ after_failure' = log.failed
        /\ UNCHANGED <<running, thread, tick_listeners, caller_pc, join_target>>

\* One cycle of worker w, over every behaviour of the collaborators. An input
\* the cycle never consults is left at its first value, so that one cycle is
\* one choice of inputs.
WorkerCycle(w) ==
    /\ worker_pc[w] = "cycle"
    /\ \E query \in {"open", "closed", "raise"} :
       \E status_raises \in IF query # "raise" /\ (query = "open") # was_open
                            THEN BOOLEAN ELSE {FALSE} :
       \E reset_raises \in IF query = "open" /\ ~was_open /\ ~status_raises
                              /\ has_reset_session
                           THEN BOOLEAN ELSE {FALSE} :
       \E ok \in IF query = "open" /\ ~status_raises /\ ~reset_raises
                 THEN SUBSET {AvailableSymbols[i] : i \in 1..Len(AvailableSymbols)}
                 ELSE {{}} :
       \E raising \in IF ok # {}
                      THEN SUBSET {tick_listeners[i] : i \in 1..Len(tick_listeners)}
                      ELSE {{}} :
          RunCycle(w, query, status_raises, reset_raises, ok, raising)

(***************************************************************************)
(* Specification of the alert manager.                                     *)
(***************************************************************************)
\* No day of the provider under observation.
InitDayIdle == day_seen = <<>>

\* No on_tick_batch call under observation.
InitWireIdle == batch = <<>> /\ batch_out = <<>>

\* No session of the scheduler under observation.
InitSessionIdle == ses_advances = None /\ ses_calls = <<>>

\* No reader and no write in progress.
InitReaderIdle ==
    /\ wr_call = None
    /\ wr_todo = <<>>
    /\ wr_goal = None
    /\ completed = <<>>
    /\ rd_symbol = None
    /\ rd_todo = <<>>
    /\ rd_seen = <<>>
    /\ rd_base = {}

\* No pure function call under test.
InitFnIdle ==
    /\ fn_args = <<>>
    /\ fn_out = None

\* The provider's variables in the specifications of the other components.
InitSimulatorIdle ==
    /\ sim_history = <<>>
    /\ sim_replay = <<>>
    /\ sim_state = <<>>
    /\ sim_subscribers = <<>>
    /\ sim_out = None

InitDetectorIdle ==
    /\ det_value = 0
    /\ det_reference = 0
    /\ det_threshold = None
    /\ det_tick = None
    /\ det_volume_threshold = None
    /\ det_out = <<>>

\* AlertManager.__init__
InitAlertManagerIdle ==
    /\ subscriptions = <<>>
    /\ cooldowns = <<>>
    /\ cooldown_seconds = ALERT_COOLDOWN_SECONDS
    /\ alert_listeners = <<>>
    /\ clock = 0
    /\ pt_pc = "idle"
    /\ pt_ticks = <<>>
    /\ pt_pos = 0
    /\ pt_alerts = <<>>
    /\ pt_triggered = <<>>
    /\ pt_notified = <<>>
    /\ last_emit = <<>>
    /\ prev_emit = <<>>
    /\ last_suppressed = None
    /\ sub_out = None

InitAlerts ==
    /\ InitDetectorIdle
    /\ InitSimulatorIdle /\ InitFnIdle /\ InitReaderIdle /\ InitSessionIdle /\ InitDayIdle /\ InitWireIdle
    /\ InitEngineIdle
    /\ subscriptions = <<>>
    /\ cooldowns = <<>>
    /\ cooldown_seconds = ALERT_COOLDOWN_SECONDS
    /\ alert_listeners = <<>>
    /\ clock = 0
    /\ pt_pc = "idle"
    /\ pt_ticks = <<>>
    /\ pt_pos = 0
    /\ pt_alerts = <<>>
    /\ pt_triggered = <<>>
    /\ pt_notified = <<>>
    /\ last_emit = <<>>
    /\ prev_emit = <<>>
    /\ last_suppressed = None
    /\ sub_out = None

alertsRest == <<detVars, engVars, engHist, sub_out, simVars, fnVars, rdVars, sesVars, dayVars, wireVars>>

NextAlerts ==
    \/ pt_pc = "idle" /\ OnAlert /\ UNCHANGED alertsRest
    \/ \E u \in Users, s \in RawSymbols, p \in PriceThresholdInputs,
          v \in VolumeThresholdInputs :
            pt_pc = "idle" /\ AddSubscription(u, s, p, v) /\ UNCHANGED alertsRest
    \/ \E u \in Users, s \in RawSymbols :
            pt_pc = "idle" /\ RemoveSubscription(u, s) /\ UNCHANGED alertsRest
    \/ \E ticks \in TickBatches :
            pt_pc = "idle" /\ ProcessTicksCall(ticks) /\ UNCHANGED alertsRest
    \/ ProcessTicksNext /\ UNCHANGED alertsRest
    \/ ProcessTicksCheck /\ UNCHANGED alertsRest
    \/ ProcessTicksEmit /\ UNCHANGED alertsRest
    \/ ProcessTicksReturn /\ UNCHANGED alertsRest
    \/ ClockAdvance /\ UNCHANGED alertsRest

SpecAlerts == InitAlerts /\ [][NextAlerts]_vars

(***************************************************************************)
(* Claims on the alert manager (SpecAlerts).                               *)
(***************************************************************************)
\* C1: any two alerts emitted for the same (user_id, symbol, alert_type) are
\* emitted at least cooldown_seconds apart, over any sequence of
\* process_ticks calls and any clock that never goes backwards. Stated on
\* the last two emissions of every key, which covers every pair.
C1_CooldownSpacing ==
    \A key \in DOMAIN prev_emit :
        last_emit[key] - prev_emit[key] >= cooldown_seconds

\* C1 witness: some key has had two alerts emitted.
C1_Witness == \E key \in CooldownKeys : key \in DOMAIN prev_emit

\* The key of the alert process_ticks is gating.
GatedKey == AlertKey(CurrentSub.user_id, Head(pt_alerts))

\* A step of process_ticks that leaves the cooldown test of one alert.
GateStep == pt_pc = "check" /\ <<pt_pc, pt_alerts>>' # <<pt_pc, pt_alerts>>

\* C10: once an alert of a key was emitted at t0, a trigger of the key gated
\* at clock value t is suppressed iff t - t0 < cooldown_seconds, a suppressed
\* trigger emits nothing and changes no CooldownEntry (the entry stays t0,
\* the time of the last emitted alert), and a trigger that passes the gate
\* is emitted by the next step of the call.
C10_SuppressedKeepsEntry ==
    [][ /\ \A key \in DOMAIN last_emit' :
              key \in DOMAIN cooldowns' /\ cooldowns'[key] = last_emit'[key]
        /\ (GateStep /\ GatedKey \in DOMAIN last_emit) =>
              IF clock - last_emit[GatedKey] < cooldown_seconds
              THEN /\ pt_pc' # "set"
                   /\ pt_alerts' = Tail(pt_alerts)
                   /\ pt_triggered' = pt_triggered
                   /\ cooldowns' = cooldowns
              ELSE /\ pt_pc' = "set"
                   /\ pt_alerts' = pt_alerts
        /\ (pt_pc = "set" /\ ptVars' # ptVars) =>
              /\ Len(pt_triggered') = Len(pt_triggered) + 1
              /\ pt_triggered'[Len(pt_triggered')].alert = Head(pt_alerts)
              /\ cooldowns'[GatedKey] = clock
      ]_vars

\* C10 witness: a trigger has passed the gate for a key whose cooldown
\* suppressed an earlier trigger since the key's last emitted alert.
C10_Witness ==
    /\ pt_pc = "set"
    /\ last_suppressed = Some(GatedKey)
    /\ clock - last_emit[GatedKey] >= cooldown_seconds

ProcessUsers == <<"u1", "u2">>
ProcessSymbols == <<"NABIL", "NICA">>

\* Each user subscribes with thresholds of their own: u1 with 3 % and 2 times,
\* u2 with 5 % and 4 times.
OwnPriceThreshold(user_id) == IF user_id = "u1" THEN 3 ELSE 5
OwnVolumeThreshold(user_id) == IF user_id = "u1" THEN 2 ELSE 4

ProcessPairs == {<<ProcessUsers[i], ProcessSymbols[j]>> :
                    i \in 1..Len(ProcessUsers), j \in 1..Len(ProcessSymbols)}

\* self._subscriptions for a choice of absent / on / off per (user, symbol).
SubscriptionsOf(choice) ==
    [i \in 1..Len(ProcessUsers) |->
        LET u       == ProcessUsers[i]
            present == SelectSeq(ProcessSymbols, LAMBDA x : choice[<<u, x>>] # "absent")
        IN  <<u, [j \in 1..Len(present) |->
                    <<present[j],
                      [AlertSubscription(u, present[j], OwnPriceThreshold(u),
                                         OwnVolumeThreshold(u))
                          EXCEPT !.enabled = (choice[<<u, present[j]>>] = "on")]>>]>>]

ProcessSubscriptions ==
    {SubscriptionsOf(choice) :
        choice \in {c \in [ProcessPairs -> {"absent", "on", "off"}] :
                       Cardinality({q \in ProcessPairs : c[q] # "absent"}) <= MaxSubscriptions}}

ProcessBatches ==
    LET names == {ProcessSymbols[j] : j \in 1..Len(ProcessSymbols)}
    IN  UNION { {b \in [S -> UNION {TicksOf(x) : x \in S}] : \A x \in S : b[x] \in TicksOf(x)}
                : S \in SUBSET names }

InitProcess ==
    /\ InitDetectorIdle
    /\ InitSimulatorIdle /\ InitFnIdle /\ InitReaderIdle /\ InitSessionIdle /\ InitDayIdle /\ InitWireIdle
    /\ InitEngineIdle
    /\ subscriptions \in ProcessSubscriptions
    /\ cooldowns = <<>>
    /\ cooldown_seconds = ALERT_COOLDOWN_SECONDS
    /\ alert_listeners \in {<<>>, <<1>>, <<1, 2>>}
    /\ clock \in {0, ALERT_COOLDOWN_SECONDS}
    /\ pt_pc = "idle"
    /\ pt_ticks = <<>>
    /\ pt_pos = 0
    /\ pt_alerts = <<>>
    /\ pt_triggered = <<>>
    /\ pt_notified = <<>>
    /\ last_emit = <<>>
    /\ prev_emit = <<>>
    /\ last_suppressed = None
    /\ sub_out = None

NextProcess ==
    \/ \E ticks \in ProcessBatches : ProcessTicksCall(ticks) /\ UNCHANGED alertsRest
    \/ ProcessTicksNext /\ UNCHANGED alertsRest
    \/ ProcessTicksCheck /\ UNCHANGED alertsRest
    \/ ProcessTicksEmit /\ UNCHANGED alertsRest
    \/ ProcessTicksReturn /\ UNCHANGED alertsRest

SpecProcess == InitProcess /\ [][NextProcess]_vars

\* C12: for an alert that passes the gate the new last-fire time is recorded,
\* the alert is appended to `triggered` and every registered listener is
\* called with (user_id, alert), in order, whichever of them raise; what the
\* call has recorded, appended and notified so far stays; and the loop goes on
\* to the remaining alerts and subscriptions: the call returns only when no
\* subscription to evaluate is left.
C12_EmissionSurvivesListeners ==
    [][ /\ (pt_pc = "set" /\ ptVars' # ptVars) =>
              LET user_id == CurrentSub.user_id
                  alert   == Head(pt_alerts)
              IN  /\ GatedKey \in DOMAIN cooldowns'
                  /\ cooldowns'[GatedKey] = clock
                  /\ pt_triggered' = Append(pt_triggered, [user_id |-> user_id, alert |-> alert])
                  /\ Len(pt_notified') = Len(pt_notified) + Len(alert_listeners)
                  /\ \A i \in 1..Len(alert_listeners) :
                        LET call == pt_notified'[Len(pt_notified) + i]
                        IN  /\ call.listener = alert_listeners[i]
                            /\ call.user_id = user_id
                            /\ call.alert = alert
                  /\ pt_pc' = AfterAlert
        /\ pt_pc \in {"loop", "check", "set"} =>
              /\ \A i \in 1..Len(pt_triggered) : pt_triggered'[i] = pt_triggered[i]
              /\ \A i \in 1..Len(pt_notified) : pt_notified'[i] = pt_notified[i]
              /\ \A k \in DOMAIN cooldowns : k \in DOMAIN cooldowns'
        /\ (pt_pc # "return" /\ pt_pc' = "return") =>
              /\ pt_pc = "loop"
              /\ \A p \in (pt_pos + 1)..NumSubscriptions :
                    ~Evaluated(FlattenSubs(subscriptions)[p], pt_ticks)
      ]_vars

\* C12 witness: the first of two listeners raised on the first alert of a
\* call, the second listener was called all the same, and the call went on to
\* emit an alert of another user's subscription.
C12_Witness ==
    /\ Len(pt_notified) >= 2
    /\ pt_notified[1].raised
    /\ pt_notified[2].listener = 2
    /\ pt_notified[2].alert = pt_notified[1].alert
    /\ Len(pt_triggered) >= 2
    /\ pt_triggered[Len(pt_triggered)].user_id # pt_triggered[1].user_id

\* The alerts the detector gives for the tick of a subscription's symbol
\* under the subscription's own thresholds.
AlertsOf(sub, ticks) ==
    analyze_tick(ticks[sub.symbol], Some(sub.price_threshold_pct),
                 Some(sub.volume_threshold_multiplier))

\* C15: process_ticks evaluates exactly the enabled subscriptions whose symbol
\* is in the batch, each with its own thresholds. When the call returns,
\* every alert in `triggered` is one the detector gives for such a
\* subscription, and every alert the detector gives for such a subscription
\* was emitted or is in cooldown; and a CooldownEntry is written only for an
\* alert of such a subscription, under that subscription's user and symbol.
C15_ExactlyEnabledInBatch ==
    /\ [](pt_pc = "return" =>
            LET flat == FlattenSubs(subscriptions)
                live == {p \in 1..Len(flat) :
                            flat[p].enabled /\ flat[p].symbol \in DOMAIN pt_ticks}
            IN  /\ \A i \in 1..Len(pt_triggered) :
                      \E p \in live :
                          /\ flat[p].user_id = pt_triggered[i].user_id
                          /\ \E j \in 1..Len(AlertsOf(flat[p], pt_ticks)) :
                                AlertsOf(flat[p], pt_ticks)[j] = pt_triggered[i].alert
                /\ \A p \in live :
                      \A j \in 1..Len(AlertsOf(flat[p], pt_ticks)) :
                          LET alert == AlertsOf(flat[p], pt_ticks)[j]
                          IN  \/ \E i \in 1..Len(pt_triggered) :
                                    pt_triggered[i] = [user_id |-> flat[p].user_id,
                                                       alert |-> alert]
                              \/ is_in_cooldown(AlertKey(flat[p].user_id, alert), clock))
    /\ [][ cooldowns' # cooldowns =>
              /\ pt_pc = "set"
              /\ CurrentSub.enabled
              /\ CurrentSub.symbol \in DOMAIN pt_ticks
              /\ \A k \in DOMAIN cooldowns' :
                    (k \notin DOMAIN cooldowns \/ cooldowns'[k] # cooldowns[k]) =>
                        /\ k[1] = CurrentSub.user_id
                        /\ k[2] = CurrentSub.symbol
      ]_vars

\* C15 witness: a call returns alerts while the table holds a disabled
\* subscription whose tick would have fired, and a subscription whose symbol
\* is not in the batch; neither has a CooldownEntry.
C15_Witness ==
    /\ pt_pc = "return"
    /\ pt_triggered # <<>>
    /\ LET flat == FlattenSubs(subscriptions)
       IN  /\ \E p \in 1..Len(flat) :
                 /\ ~flat[p].enabled
                 /\ flat[p].symbol \in DOMAIN pt_ticks
                 /\ AlertsOf(flat[p], pt_ticks) # <<>>
                 /\ \A k \in DOMAIN cooldowns : k[1] # flat[p].user_id \/ k[2] # flat[p].symbol
           /\ \E p \in 1..Len(flat) :
                 /\ flat[p].enabled
                 /\ flat[p].symbol \notin DOMAIN pt_ticks
                 /\ \A k \in DOMAIN cooldowns : k[1] # flat[p].user_id \/ k[2] # flat[p].symbol

(***************************************************************************)
(* Specification of the subscription table: add_subscription and           *)
(* remove_subscription are called with every user, symbol and thresholds,  *)
(* and each call is recorded with what it returned and the table it found. *)
(***************************************************************************)
SubscriptionSymbols == {"nabil", "NABIL", "NICA"}
PriceThresholdChoices == {3, 5}
VolumeThresholdChoices == {2, 4}

\* self._subscriptions[user_id][symbol] in table d, None without one.
Lookup(d, user_id, symbol) ==
    IF DictHas(d, user_id) /\ DictHas(DictGet(d, user_id), symbol)
    THEN Some(DictGet(DictGet(d, user_id), symbol))
    ELSE None

\* What remove_subscription returns (lines 84-87).
remove_subscription_returns(user_id, raw_symbol) ==
    Lookup(subscriptions, user_id, upper(raw_symbol)) # None

CallAddSubscription(user_id, raw_symbol, p, v) ==
    /\ AddSubscription(user_id, raw_symbol, p, v)
    /\ sub_out' = Some([op |-> "add", user_id |-> user_id, symbol |-> upper(raw_symbol),
                        price |-> p, volume |-> v,
                        returned |-> Some(AlertSubscription(user_id, upper(raw_symbol), p, v)),
                        before |-> subscriptions, again |-> FALSE])

CallRemoveSubscription(user_id, raw_symbol) ==
    /\ RemoveSubscription(user_id, raw_symbol)
    /\ sub_out' = Some([op |-> "remove", user_id |-> user_id, symbol |-> upper(raw_symbol),
                        price |-> 0, volume |-> 0,
                        returned |-> Some(remove_subscription_returns(user_id, raw_symbol)),
                        before |-> subscriptions,
                        again |-> /\ sub_out # None
                                  /\ sub_out[1].op = "remove"
                                  /\ sub_out[1].user_id = user_id
                                  /\ sub_out[1].symbol = upper(raw_symbol)
                                  /\ sub_out[1].returned = Some(TRUE)])

subscriptionsRest == <<detVars, engVars, engHist, simVars, fnVars, rdVars, sesVars, dayVars, wireVars>>

InitSubscriptions ==
    InitDetectorIdle /\ InitAlertManagerIdle /\ InitEngineIdle /\ InitSimulatorIdle /\ InitFnIdle /\ InitReaderIdle /\ InitSessionIdle /\ InitDayIdle /\ InitWireIdle

NextSubscriptions ==
    \/ \E u \in Users, s \in SubscriptionSymbols, p \in PriceThresholdChoices,
          v \in VolumeThresholdChoices :
            CallAddSubscription(u, s, p, v) /\ UNCHANGED subscriptionsRest
    \/ \E u \in Users, s \in SubscriptionSymbols :
            CallRemoveSubscription(u, s) /\ UNCHANGED subscriptionsRest

SpecSubscriptions == InitSubscriptions /\ [][NextSubscriptions]_vars

LastCall == sub_out[1]

SubscribedPairs == Users \X {upper(x) : x \in SubscriptionSymbols}

\* Every pair but that of the latest call has the subscription it had.
OtherPairsUnchanged ==
    \A q \in SubscribedPairs :
        q # <<LastCall.user_id, LastCall.symbol>> =>
            Lookup(subscriptions, q[1], q[2]) = Lookup(LastCall.before, q[1], q[2])

\* C13: the table holds at most one subscription per (user_id, symbol), filed
\* under its own user and symbol; after add_subscription the pair's
\* subscription is exactly the one built from the arguments of that call,
\* whatever the pair had before, and every other pair has what it had.
C13_LastAddWins ==
    /\ LET flat == FlattenSubs(subscriptions)
       IN  /\ Cardinality({<<flat[i].user_id, flat[i].symbol>> : i \in 1..Len(flat)})
                 = Len(flat)
           /\ \A i \in 1..Len(flat) :
                 Lookup(subscriptions, flat[i].user_id, flat[i].symbol) = Some(flat[i])
    /\ (sub_out # None /\ LastCall.op = "add") =>
          /\ Lookup(subscriptions, LastCall.user_id, LastCall.symbol) =
                 Some(AlertSubscription(LastCall.user_id, LastCall.symbol,
                                        LastCall.price, LastCall.volume))
          /\ OtherPairsUnchanged

\* C13 witness: an add has replaced a subscription with other thresholds,
\* next to a subscription of another pair.
C13_Witness ==
    /\ sub_out # None
    /\ LastCall.op = "add"
    /\ LET old == Lookup(LastCall.before, LastCall.user_id, LastCall.symbol)
       IN  /\ old # None
           /\ old[1].price_threshold_pct # LastCall.price
           /\ old[1].volume_threshold_multiplier # LastCall.volume
    /\ NumSubscriptions = 2

\* C14: remove_subscription returns true exactly when the pair had a
\* subscription; afterwards the pair has none; a call that returns false
\* changes nothing, and a call repeated after a removal returns false; every
\* other pair has what it had.
C14_RemoveIdempotent ==
    (sub_out # None /\ LastCall.op = "remove") =>
        /\ LastCall.returned =
               Some(Lookup(LastCall.before, LastCall.user_id, LastCall.symbol) # None)
        /\ Lookup(subscriptions, LastCall.user_id, LastCall.symbol) = None
        /\ LastCall.returned = Some(FALSE) => subscriptions = LastCall.before
        /\ LastCall.again => LastCall.returned = Some(FALSE)
        /\ OtherPairsUnchanged

\* C14 witness: the removal of a pair, repeated after it returned true, with a
\* subscription of another pair of the same user in the table.
C14_Witness ==
    /\ sub_out # None
    /\ LastCall.op = "remove"
    /\ LastCall.again
    /\ \E q \in SubscribedPairs :
          /\ q[1] = LastCall.user_id
          /\ q[2] # LastCall.symbol
          /\ Lookup(subscriptions, q[1], q[2]) # None

(***************************************************************************)
(* Specification of the detector: the arguments are drawn at Init, the     *)
(* actions apply one check to them.                                        *)
(***************************************************************************)
DetSymbol == "NABIL"

InitDetectorInputs ==
    /\ det_value \in DetValues
    /\ det_reference \in DetReferences
    /\ det_threshold \in DetThresholds
    /\ det_tick = None
    /\ det_volume_threshold = None
    /\ det_out = <<>>

CallCheckPriceSpike ==
    /\ det_out = <<>>
    /\ det_out' = <<"check_price_spike",
                    check_price_spike(DetSymbol, det_value, det_reference, det_threshold)>>
    /\ UNCHANGED <<det_value, det_reference, det_threshold, det_tick, det_volume_threshold>>
    /\ UNCHANGED <<amVars, engVars, engHist, sub_out, simVars, fnVars, rdVars, sesVars, dayVars, wireVars>>

CallCheckVolumeSpike ==
    /\ det_out = <<>>
    /\ det_out' = <<"check_volume_spike",
                    check_volume_spike(DetSymbol, det_value, det_reference, det_threshold)>>
    /\ UNCHANGED <<det_value, det_reference, det_threshold, det_tick, det_volume_threshold>>
    /\ UNCHANGED <<amVars, engVars, engHist, sub_out, simVars, fnVars, rdVars, sesVars, dayVars, wireVars>>

InitDetector ==
    InitDetectorInputs /\ InitAlertManagerIdle /\ InitEngineIdle /\ InitSimulatorIdle /\ InitFnIdle /\ InitReaderIdle /\ InitSessionIdle /\ InitDayIdle /\ InitWireIdle

NextDetector ==
    \/ CallCheckPriceSpike
    \/ CallCheckVolumeSpike

SpecDetector == InitDetector /\ [][NextDetector]_vars

(***************************************************************************)
(* Claims on the detector (SpecDetector).                                  *)
(***************************************************************************)
\* C2: for every prev_close > 0, every current price and every non-negative
\* threshold_pct the caller supplies, check_price_spike returns a price
\* alert iff |current - prev_close| / prev_close * 100 >= threshold_pct
\* (equality fires), with direction up for a positive change and down
\* otherwise.
C2_PriceSpikeIff ==
    (/\ det_out # <<>>
     /\ det_out[1] = "check_price_spike"
     /\ det_reference > 0
     /\ det_threshold # None) =>
        LET change_num == (det_value - det_reference) * 100
            result     == det_out[2]
        IN  /\ (result # None) <=>
                   (Abs(change_num) >= det_threshold[1] * det_reference)
            /\ (result # None) =>
                   /\ result[1].alert_type = "price"
                   /\ result[1].direction = IF change_num > 0 THEN "up" ELSE "down"

\* C3: for every avg_volume > 0, every current_volume and every non-negative
\* threshold_multiplier the caller supplies, check_volume_spike returns a
\* volume alert iff current_volume / avg_volume >= threshold_multiplier
\* (equality fires), with direction up.
C3_VolumeSpikeIff ==
    (/\ det_out # <<>>
     /\ det_out[1] = "check_volume_spike"
     /\ det_reference > 0
     /\ det_threshold # None) =>
        LET result == det_out[2]
        IN  /\ (result # None) <=>
                   (det_value >= det_threshold[1] * det_reference)
            /\ (result # None) =>
                   /\ result[1].alert_type = "volume"
                   /\ result[1].direction = "up"

\* The two claims with the supplied threshold different from 0: what is left
\* of them once the fallback to the default is put aside.
DetectorIffAwayFromZero ==
    (det_threshold # Some(0)) => (C2_PriceSpikeIff /\ C3_VolumeSpikeIff)

\* C17: with prev_close <= 0 check_price_spike, and with avg_volume <= 0
\* check_volume_spike, returns no alert and raises nothing, whatever the other
\* arguments are.
C17_DegenerateInputsGiveNothing ==
    (det_out # <<>> /\ det_reference <= 0) => det_out[2] = None

\* C17 witness: check_price_spike was called with prev_close = 0, a positive
\* price and the threshold 1.
C17_Witness ==
    /\ det_out # <<>>
    /\ det_out[1] = "check_price_spike"
    /\ det_reference = 0
    /\ det_value > 0
    /\ det_threshold = Some(1)

(***************************************************************************)
(* Specification of analyze_tick: the tick and the two thresholds are      *)
(* drawn at Init, the action applies analyze_tick to them.                 *)
(***************************************************************************)
AnalyzePrices == {90, 97, 100, 103, 110}
AnalyzePrevCloses == {0, 100}
AnalyzeVolumes == {0, 10, 20, 30}
AnalyzeAvgVolumes == {0, 10}
AnalyzePriceThresholds == {None, Some(0), Some(3), Some(5)}
AnalyzeVolumeThresholds == {None, Some(0), Some(2), Some(3)}

InitAnalyze ==
    /\ det_value = 0
    /\ det_reference = 0
    /\ det_threshold \in AnalyzePriceThresholds
    /\ det_volume_threshold \in AnalyzeVolumeThresholds
    /\ det_tick \in {Some(Tick(DetSymbol, p, c, v, a)) :
                        p \in AnalyzePrices, c \in AnalyzePrevCloses,
                        v \in AnalyzeVolumes, a \in AnalyzeAvgVolumes}
    /\ det_out = <<>>
    /\ InitAlertManagerIdle
    /\ InitEngineIdle
    /\ InitSimulatorIdle /\ InitFnIdle /\ InitReaderIdle /\ InitSessionIdle /\ InitDayIdle /\ InitWireIdle

CallAnalyzeTick ==
    /\ det_out = <<>>
    /\ det_tick # None
    /\ det_out' = <<"analyze_tick",
                    analyze_tick(det_tick[1], det_threshold, det_volume_threshold)>>
    /\ UNCHANGED <<det_value, det_reference, det_threshold, det_tick, det_volume_threshold>>
    /\ UNCHANGED <<amVars, engVars, engHist, sub_out, simVars, fnVars, rdVars, sesVars, dayVars, wireVars>>

NextAnalyze == CallAnalyzeTick

SpecAnalyze == InitAnalyze /\ [][NextAnalyze]_vars

\* The alerts of one type in a list of alerts.
OfType(alerts, type) == SelectSeq(alerts, LAMBDA a : a.alert_type = type)

\* C16: analyze_tick returns the alert of the price check on the tick, if that
\* check alone gives one, and the alert of the volume check on the tick, if
\* that check alone gives one: 0, 1 or 2 alerts, at most one of each type,
\* and neither check changes what the other gives.
C16_ChecksAreIndependent ==
    (det_out # <<>> /\ det_out[1] = "analyze_tick") =>
        LET tick   == det_tick[1]
            price  == check_price_spike(tick.symbol, tick.price, tick.prev_close,
                                        det_threshold)
            volume == check_volume_spike(tick.symbol, tick.volume, tick.avg_volume,
                                         det_volume_threshold)
            result == det_out[2]
        IN  /\ Len(result) \in 0..2
            /\ OfType(result, "price") = price
            /\ OfType(result, "volume") = volume
            /\ Len(result) = Len(price) + Len(volume)

\* C16 witness: analyze_tick has returned a price alert and a volume alert.
C16_Witness ==
    /\ det_out # <<>>
    /\ det_out[1] = "analyze_tick"
    /\ Len(det_out[2]) = 2

(***************************************************************************)
(* Specifications of the engine: SpecEngine, and FairSpecEngine with the   *)
(* scheduling the threads get: a worker that can take its next step takes  *)
(* it (the cycle's calls return, the sleep ends), a start() past its check *)
(* goes on, a join returns.                                                *)
(***************************************************************************)
InitEngine ==
    /\ InitDetectorIdle
    /\ InitSimulatorIdle /\ InitFnIdle /\ InitReaderIdle /\ InitSessionIdle /\ InitDayIdle /\ InitWireIdle
    /\ InitAlertManagerIdle
    /\ running = FALSE
    /\ thread = None
    /\ was_open = FALSE
    /\ tick_listeners = <<>>
    /\ worker_pc = [w \in Threads |-> "unborn"]
    /\ caller_pc = [c \in Callers |-> "idle"]
    /\ join_target = [c \in Callers |-> None]
    /\ cyc = None
    /\ last_obs = FALSE
    /\ last_event = "none"
    /\ after_failure = FALSE

engineRest == <<detVars, amVars, sub_out, simVars, fnVars, rdVars, sesVars, dayVars, wireVars>>

NextEngine ==
    \/ OnTick /\ UNCHANGED engineRest
    \/ \E c \in Callers : StartCheck(c) /\ UNCHANGED engineRest
    \/ \E c \in Callers : StartSpawn(c) /\ UNCHANGED engineRest
    \/ \E c \in Callers : StopSignal(c) /\ UNCHANGED engineRest
    \/ \E c \in Callers : JoinEnded(c) /\ UNCHANGED engineRest
    \/ \E c \in Callers : JoinTimeout(c) /\ UNCHANGED engineRest
    \/ \E w \in Threads : LoopTest(w) /\ UNCHANGED engineRest
    \/ \E w \in Threads : WorkerCycle(w) /\ UNCHANGED engineRest

SpecEngine == InitEngine /\ [][NextEngine]_vars

\* One step of worker w: only one of the two is enabled at a time.
WorkerStep(w) == LoopTest(w) \/ WorkerCycle(w)

\* join() returns to caller c.
JoinReturns(c) == JoinEnded(c) \/ JoinTimeout(c)

FairSpecEngine ==
    /\ SpecEngine
    /\ \A w \in Threads : WF_vars(WorkerStep(w) /\ UNCHANGED engineRest)
    /\ \A c \in Callers : WF_vars(JoinReturns(c) /\ UNCHANGED engineRest)

(***************************************************************************)
(* Claims about the engine.                                                *)
(***************************************************************************)
LastCycle == cyc[1]

\* C4: a cycle emits "opened" exactly when it observes open after the previous
\* observation was closed, "closed" exactly when it observes closed after the
\* previous observation was open, and nothing when its observation equals the
\* previous one; so an emitted event differs from the event emitted before it.
C4_EventsOnlyOnEdges ==
    (cyc # None /\ LastCycle.observed) =>
        /\ LastCycle.event =
              IF LastCycle.is_open /\ ~LastCycle.prev_obs THEN "opened"
              ELSE IF ~LastCycle.is_open /\ LastCycle.prev_obs THEN "closed"
              ELSE "none"
        /\ LastCycle.event # "none" => LastCycle.event # LastCycle.prev_event

\* C5: under every interleaving of start() and stop() calls at most one worker
\* loop is alive.
C5_AtMostOneWorker == Cardinality({w \in Threads : Alive(w)}) <= 1

BatchKeys(all_ticks) == {all_ticks[i][1] : i \in 1..Len(all_ticks)}

\* What C6 says of the batch of a cycle that generates ticks: generate_tick is
\* called for every available symbol, and exactly the symbols whose call
\* succeeded are in the batch, each once and keyed by its symbol.
BatchIsTheSuccesses(c) ==
    /\ c.called = AvailableSymbols
    /\ BatchKeys(c.all_ticks) = c.ok
    /\ Len(c.all_ticks) = Cardinality(c.ok)
    /\ \A i \in 1..Len(c.all_ticks) : c.all_ticks[i][2].symbol = c.all_ticks[i][1]

C7_ListenersOnceInOrder ==
    cyc # None =>
        /\ LastCycle.all_ticks # <<>> =>
              /\ Len(LastCycle.delivered) = Len(tick_listeners)
              /\ \A i \in 1..Len(tick_listeners) :
                    LastCycle.delivered[i] = <<tick_listeners[i], LastCycle.all_ticks>>
              /\ ~LastCycle.failed
        /\ LastCycle.all_ticks = <<>> => LastCycle.delivered = <<>>
        /\ worker_pc[LastCycle.worker] = "sleep"

\* A cycle with a non-empty batch and two listeners of which the first raised.
C7_Witness ==
    /\ cyc # None
    /\ LastCycle.all_ticks # <<>>
    /\ Len(tick_listeners) = 2
    /\ tick_listeners[1] \in LastCycle.raising
    /\ Len(LastCycle.delivered) = 2

\* C8: while the engine is running, after every cycle of a worker, failed or
\* not, that worker eventually starts a further cycle.
C8_LoopSurvivesFailures ==
    \A w \in Threads :
        (cyc # None /\ LastCycle.worker = w) ~> (worker_pc[w] = "cycle" \/ ~running)

\* The only worker there has been starts a cycle after its previous cycle failed.
C8_Witness ==
    /\ Cardinality({w \in Threads : worker_pc[w] # "unborn"}) = 1
    /\ \E w \in Threads : worker_pc[w] = "cycle"
    /\ after_failure
    /\ running

\* C9: once stop() has cleared the flag, a worker starts no new cycle; no
\* worker stays alive for ever with the flag clear (its loop ends unless a
\* start() sets the flag again); and no stop() stays in its join for ever.
C9_StopEndsTheLoop ==
    /\ [][\A w \in Threads :
             (worker_pc[w] # "cycle" /\ worker_pc'[w] = "cycle") => running]_vars
    /\ \A w \in Threads : []<>(running \/ ~Alive(w))
    /\ \A c \in Callers : []<>(caller_pc[c] # "join")

\* stop() has returned, the flag is clear and the worker it joined has ended.
C9_Witness ==
    /\ ~running
    /\ thread # None
    /\ worker_pc[thread[1]] = "done"
    /\ \A c \in Callers : caller_pc[c] = "idle"

(***************************************************************************)
(* SimulatorProvider (providers/simulator.py).                             *)
(*                                                                         *)
(* Numbers.  A price is an integer number of thousandths of a rupee, so    *)
(* that a historical price may carry a third decimal and round(x, 2) is    *)
(* the rounding to a multiple of 10.  A price that is not yet rounded (the *)
(* interpolated target, the noisy new_price) is an exact fraction          *)
(* <<numerator, denominator>> of thousandths, denominator > 0.             *)
(***************************************************************************)

\* ---- bounds ----
\* REPLAY_WINDOW_DAYS (simulator.py line 29, 7 in the source).
REPLAY_WINDOW_DAYS == 2
\* HISTORY_LOOKBACK_DAYS (line 30, 30 in the source): the longest history loaded.
HISTORY_LOOKBACK_DAYS == 3
\* TICKS_PER_DAY (line 31, 200 in the source) is the module setting every cursor
\* copies into its "ticks_per_day"; the model runs every setting 1..MaxTicksPerDay.
MaxTicksPerDay == 3

\* The floor of max(target_price + noise, 1.0), line 224, in thousandths.
MinPrice == 1000

Min2(a, b) == IF a <= b THEN a ELSE b
Max2(a, b) == IF a >= b THEN a ELSE b

\* The multiple of step nearest to the fraction num / den (den > 0), a tie going
\* to the even multiple: Python's round().
RoundTo(num, den, step) ==
    LET unit == step * den
        q == num \div unit
        r == num - q * unit
    IN  IF 2 * r < unit THEN step * q
        ELSE IF 2 * r > unit THEN step * (q + 1)
        ELSE IF q % 2 = 0 THEN step * q ELSE step * (q + 1)

\* round(x, 2) of a price fraction: to a whole hundredth, i.e. a multiple of 10.
Round2(num, den) == RoundTo(num, den, 10)

\* Comparison and maximum / minimum of fractions with positive denominators.
FracLeq(a, b) == a[1] * b[2] <= b[1] * a[2]
FracMax(a, b) == IF FracLeq(a, b) THEN b ELSE a
FracMin(a, b) == IF FracLeq(a, b) THEN a ELSE b
Frac(n) == <<n, 1>>

\* One historical day: get_historical_data lines 168-177.
Day(o, h, l, c, v) == [open |-> o, high |-> h, low |-> l, close |-> c, volume |-> v]

\* The days the histories are built from:
\*   a day that walks 10 -> 12 -> 9 -> 11.006, its close carrying a third decimal;
\*   a day whose price cells hold "-", which _parse_number reads as 0.0.
DayChoices ==
    { Day(10000, 12000, 9000, 11006, 3),
      Day(0, 0, 0, 0, 0) }

SimSymbols == {"NABIL", "NICA"}

\* The arguments generate_tick is called with.
SimInputs == {"NABIL", "nabil", "NICA", "ADBL"}

\* Histories of 1..HISTORY_LOOKBACK_DAYS days, oldest first.
Histories(days) == UNION { [1..n -> days] : n \in 1..HISTORY_LOOKBACK_DAYS }

\* The noise np.random.normal may return (line 223), in thousandths: a large
\* negative value, no noise, a fraction of a hundredth.
NoiseChoices == {-20000, 0, 4}

\* _pick_replay_window (lines 104-113): the start indices random.randint may
\* return and the slice taken for one of them.
window_size(history) == Min2(REPLAY_WINDOW_DAYS, Len(history))

Starts(history) == 0..Max2(0, Len(history) - window_size(history))

\* A mutant of the slice: its last day is left out.
pick_replay_window_short(history, start) ==
    SubSeq(history, start + 1, start + window_size(history) - 1)

pick_replay_window(history, start) ==
    SubSeq(history, start + 1, start + window_size(history))

\* A mutant of the walk: the third phase runs to the end of the day, so that
\* the close is reached at progress 1 only.
interpolate_price_late_close(open_p, high_p, low_p, close_p, k, d) ==
    IF 4 * k < d THEN
        <<3 * (open_p * d + (high_p - open_p) * 4 * k), 3 * d>>
    ELSE IF 2 * k < d THEN
        <<3 * (high_p * d + (low_p - high_p) * (4 * k - d)), 3 * d>>
    ELSE
        <<3 * (low_p * d + (close_p - low_p) * (2 * k - d)), 3 * d>>

\* _interpolate_price (lines 288-315) at progress = k / d, as a fraction with
\* denominator 3 * d.
interpolate_price(open_p, high_p, low_p, close_p, k, d) ==
    IF 4 * k < d THEN
        <<3 * (open_p * d + (high_p - open_p) * 4 * k), 3 * d>>
    ELSE IF 2 * k < d THEN
        <<3 * (high_p * d + (low_p - high_p) * (4 * k - d)), 3 * d>>
    ELSE IF 5 * k < 4 * d THEN
        <<low_p * 3 * d + (close_p - low_p) * (10 * k - 5 * d), 3 * d>>
    ELSE
        <<close_p * 3 * d, 3 * d>>

\* round(((x - prev_close) / prev_close) * 100, 2) if prev_close else 0.0, in
\* hundredths of a percent; x is a fraction.
change_pct_of(x, prev_close) ==
    IF prev_close = 0 THEN 0
    ELSE IF prev_close > 0
         THEN RoundTo((x[1] - prev_close * x[2]) * 10000, x[2] * prev_close, 1)
         ELSE RoundTo((prev_close * x[2] - x[1]) * 10000, x[2] * (0 - prev_close), 1)

\* The values tick_volume can take (lines 227-228):
\* max(1, int(day_volume / ticks_per_day * (0.5 + sin(progress * pi)))).
\* The sine is 0 at progress 0 and 1 (to within 2e-16) and 1 at progress 1/2;
\* elsewhere it lies strictly between, and every value of the range is kept.
TickVolumes(day_volume, ticks_per_day, k, d) ==
    LET lo == Max2(1, day_volume \div (2 * ticks_per_day))
        hi == Max2(1, (3 * day_volume) \div (2 * ticks_per_day))
    IN  IF k = 0 \/ k = d THEN {lo}
        ELSE IF 2 * k = d THEN {hi}
        ELSE lo..hi

\* self._current_state[symbol] as _initialize builds it (lines 79-97); the fields
\* name, sector, avg_volume, volatility, replay_date, replay_total_days and
\* timestamp are not read by the provider and are left out.
TickState(first_day) ==
    [price |-> first_day.open, open |-> first_day.open, high |-> first_day.open,
     low |-> first_day.open, volume |-> 0, change |-> 0, change_pct |-> 0,
     prev_close |-> first_day.open, replay_day |-> 1]

\* self._replay[symbol] (lines 69-75); "full_history" is sim_history[symbol].
ReplayCursor(window, ticks_per_day) ==
    [window |-> window, day_index |-> 0, tick_index |-> 0,
     ticks_per_day |-> ticks_per_day]

\* A mutant of _advance_replay: line 119 is left out, day_index is not rewound.
advance_replay_without_rewind(replay, state, window) ==
    LET first_day == window[1]
    IN  [replay |-> [replay EXCEPT !.window = window, !.tick_index = 0],
         state |-> [state EXCEPT !.prev_close = state.price,
                                 !.open = first_day.open,
                                 !.high = first_day.open,
                                 !.low = first_day.open,
                                 !.volume = 0,
                                 !.replay_day = 1]]

\* A mutant of _advance_replay: lines 126-127 are left out, high and low are
\* carried into the new window.
advance_replay_keeping_extrema(replay, state, window) ==
    LET first_day == window[1]
    IN  [replay |-> [replay EXCEPT !.window = window, !.day_index = 0,
                                   !.tick_index = 0],
         state |-> [state EXCEPT !.prev_close = state.price,
                                 !.open = first_day.open,
                                 !.volume = 0,
                                 !.replay_day = 1]]

\* _advance_replay (lines 115-133) with the window _pick_replay_window returned.
advance_replay(replay, state, window) ==
    LET first_day == window[1]
    IN  [replay |-> [replay EXCEPT !.window = window, !.day_index = 0,
                                   !.tick_index = 0],
         state |-> [state EXCEPT !.prev_close = state.price,
                                 !.open = first_day.open,
                                 !.high = first_day.open,
                                 !.low = first_day.open,
                                 !.volume = 0,
                                 !.replay_day = 1]]

\* The body of reset_session's loop without lines 145-148: the cursor steps to
\* the next day and the window is never replaced.
reset_symbol_without_reseed(replay, state, history, start) ==
    [replay |-> [replay EXCEPT !.day_index = @ + 1, !.tick_index = 0],
     state |-> state]

\* The body of reset_session's loop for one symbol (lines 141-163).
reset_symbol(replay, state, history, start) ==
    LET stepped == [replay EXCEPT !.day_index = @ + 1, !.tick_index = 0]
    IN  IF stepped.day_index >= Len(stepped.window)
        THEN advance_replay(stepped, state, pick_replay_window(history, start))
        ELSE LET day_data == stepped.window[stepped.day_index + 1]
                 prev_close == state.price
             IN  [replay |-> stepped,
                  state |-> [state EXCEPT
                      !.prev_close = prev_close,
                      !.open = day_data.open,
                      !.high = day_data.open,
                      !.low = day_data.open,
                      !.price = day_data.open,
                      !.volume = 0,
                      !.change = Round2(day_data.open - prev_close, 1),
                      !.change_pct = change_pct_of(Frac(day_data.open), prev_close),
                      !.replay_day = stepped.day_index + 1]]

\* generate_tick, lines 196-204: the cursor the tick is generated from.
enter_day(replay, state, history, start) ==
    IF replay.day_index >= Len(replay.window)
    THEN advance_replay(replay, state, pick_replay_window(history, start))
    ELSE [replay |-> replay, state |-> state]

\* progress = min(tick_idx / max(ticks_per_day - 1, 1), 1.0) (line 214) is
\* ProgressNum / ProgressDen.
ProgressDen(replay) == Max2(replay.ticks_per_day - 1, 1)
ProgressNum(replay) == Min2(replay.tick_index, ProgressDen(replay))

\* Lines 246-255 without the snap of line 248-252: the day ends and the price of
\* the last tick stays the noisy one.
end_of_day_unsnapped(state, day_close, prev_close) == state

\* Lines 248-252: snap to the close at the end of the day.
end_of_day(state, day_close, prev_close) ==
    [state EXCEPT !.price = Round2(day_close, 1),
                  !.change = Round2(day_close - prev_close, 1),
                  !.change_pct = change_pct_of(Frac(day_close), prev_close)]

\* generate_tick, lines 206-273, from the cursor enter_day left: the day's
\* OHLC, the interpolated target, noise and floor, the state update, the tick
\* counter and the end of the day.
generate_tick(replay, state, history, noise, tick_volume, start) ==
    LET day == replay.window[replay.day_index + 1]
        tick_idx == replay.tick_index
        ticks_per_day == replay.ticks_per_day
        target_price == interpolate_price(day.open, day.high, day.low, day.close,
                                          ProgressNum(replay), ProgressDen(replay))
        noisy == <<target_price[1] + noise * target_price[2], target_price[2]>>
        new_price == FracMax(noisy, Frac(MinPrice))
        prev_close == state.prev_close
        updated == [state EXCEPT
            !.price = Round2(new_price[1], new_price[2]),
            !.high = LET m == FracMax(Frac(state.high), new_price)
                     IN  Round2(m[1], m[2]),
            !.low = LET m == FracMin(Frac(state.low), new_price)
                    IN  Round2(m[1], m[2]),
            !.volume = @ + tick_volume,
            !.change = Round2(new_price[1] - prev_close * new_price[2], new_price[2]),
            !.change_pct = change_pct_of(new_price, prev_close)]
        counted == [replay EXCEPT !.tick_index = tick_idx + 1]
    IN  IF counted.tick_index >= ticks_per_day
        THEN LET snapped == end_of_day(updated, day.close, prev_close)
                 stepped == [counted EXCEPT !.day_index = @ + 1, !.tick_index = 0]
             IN  IF stepped.day_index < Len(stepped.window)
                 THEN LET next_day == stepped.window[stepped.day_index + 1]
                      IN  [replay |-> stepped,
                           state |-> [snapped EXCEPT
                               !.prev_close = day.close,
                               !.open = next_day.open,
                               !.high = next_day.open,
                               !.low = next_day.open,
                               !.volume = 0,
                               !.replay_day = stepped.day_index + 1]]
                 ELSE advance_replay(stepped, snapped,
                                     pick_replay_window(history, start))
        ELSE [replay |-> counted, state |-> updated]

\* The call ends the day / the window (the start index is drawn only then).
EndsDay(replay) == replay.tick_index + 1 >= replay.ticks_per_day
EndsWindow(replay) == EndsDay(replay) /\ replay.day_index + 1 >= Len(replay.window)

\* A mutant of _initialize: the test of line 58 is left out.
TrackedWhateverHistory(history) == DOMAIN history

\* The symbols _initialize keeps: those with at least 2 days of history (line 58).
Tracked(history) == {s \in DOMAIN history : Len(history[s]) >= 2}

\* The histories of the model: every history over DayChoices for NABIL while
\* NICA has a single day (and is skipped), and one history in which both
\* symbols are tracked, NICA with two quiet days.
QuietDay == Day(5000, 5000, 5000, 5000, 0)

SimHistories ==
    { [s \in SimSymbols |-> IF s = "NABIL" THEN h ELSE <<QuietDay>>] :
        h \in Histories(DayChoices) }
    \cup
    { [s \in SimSymbols |-> IF s = "NABIL"
                            THEN <<Day(10000, 12000, 9000, 11006, 3), Day(0, 0, 0, 0, 0)>>
                            ELSE <<QuietDay, QuietDay>>] }

\* __init__ / _initialize (lines 44-102).
InitSimulator ==
    /\ InitDetectorIdle
    /\ InitAlertManagerIdle
    /\ InitEngineIdle
    /\ InitFnIdle
    /\ InitReaderIdle /\ InitSessionIdle /\ InitDayIdle /\ InitWireIdle
    /\ sim_history \in SimHistories
    /\ \E ticks_per_day \in 1..MaxTicksPerDay :
       \E start \in [Tracked(sim_history) -> 0..HISTORY_LOOKBACK_DAYS] :
          /\ \A s \in Tracked(sim_history) : start[s] \in Starts(sim_history[s])
          /\ sim_replay = [s \in Tracked(sim_history) |->
                ReplayCursor(pick_replay_window(sim_history[s], start[s]),
                             ticks_per_day)]
          /\ sim_state = [s \in Tracked(sim_history) |->
                TickState(pick_replay_window(sim_history[s], start[s])[1])]
    /\ sim_subscribers = <<>>
    /\ sim_out = None

\* self._subscribers.get(symbol, []) (line 280).
SubscribersOf(subscribers, symbol) ==
    IF symbol \in DOMAIN subscribers THEN subscribers[symbol] ELSE <<>>

Callbacks(list) == {list[i] : i \in 1..Len(list)}

\* A mutant of the notification: the first callback that raises ends the loop.
NotifyObserversUntilFailure(callbacks, raising, tick_data) ==
    LET bad == {i \in 1..Len(callbacks) : callbacks[i] \in raising}
        n   == IF bad = {} THEN Len(callbacks)
               ELSE CHOOSE i \in bad : \A j \in bad : i <= j
    IN  [i \in 1..n |-> [callback |-> callbacks[i], tick |-> tick_data,
                         raised |-> callbacks[i] \in raising]]

\* generate_tick, lines 279-284: every callback of the symbol's list is called
\* with the tick, in list order, each inside its own try / except. The calls
\* made, with their outcome.
NotifyObservers(callbacks, raising, tick_data) ==
    [i \in 1..Len(callbacks) |-> [callback |-> callbacks[i], tick |-> tick_data,
                                  raised |-> callbacks[i] \in raising]]

\* generate_tick(symbol) for an unknown symbol: ValueError (lines 189-191).
GenerateTickUnknown ==
    \E input \in SimInputs :
       LET symbol == upper(input)
       IN  /\ symbol \notin DOMAIN sim_replay \/ symbol \notin DOMAIN sim_state
           /\ sim_out' = Some([op |-> "generate_tick", symbol |-> symbol,
                               raised |-> TRUE])
           /\ UNCHANGED <<sim_history, sim_replay, sim_state, sim_subscribers>>

\* generate_tick(symbol) for a tracked symbol (lines 189-286), one atomic step:
\* the scheduler's worker is the only caller.
GenerateTick ==
    \E input \in SimInputs :
       LET symbol == upper(input)
       IN  /\ symbol \in DOMAIN sim_replay
           /\ symbol \in DOMAIN sim_state
           /\ LET history == sim_history[symbol]
                  reseeds == sim_replay[symbol].day_index
                                 >= Len(sim_replay[symbol].window)
              IN  \E start0 \in IF reseeds THEN Starts(history) ELSE {0} :
                  LET entered == enter_day(sim_replay[symbol], sim_state[symbol],
                                           history, start0)
                      day == entered.replay.window[entered.replay.day_index + 1]
                  IN  \E noise \in NoiseChoices,
                         tick_volume \in TickVolumes(day.volume,
                                                     entered.replay.ticks_per_day,
                                                     ProgressNum(entered.replay),
                                                     ProgressDen(entered.replay)),
                         start \in IF EndsWindow(entered.replay)
                                   THEN Starts(history) ELSE {0},
                         raising \in SUBSET Callbacks(SubscribersOf(sim_subscribers,
                                                                    symbol)) :
                      LET after == generate_tick(entered.replay, entered.state,
                                                 history, noise, tick_volume, start)
                      IN  /\ sim_replay' = [sim_replay EXCEPT ![symbol] = after.replay]
                          /\ sim_state' = [sim_state EXCEPT ![symbol] = after.state]
                          /\ sim_out' = Some(
                                [op |-> "generate_tick", symbol |-> symbol,
                                 raised |-> FALSE,
                                 tick |-> after.state,
                                 tick_volume |-> tick_volume,
                                 day |-> day,
                                 tick_idx |-> entered.replay.tick_index,
                                 ticks_per_day |-> entered.replay.ticks_per_day,
                                 noise |-> noise,
                                 ends_day |-> EndsDay(entered.replay),
                                 notified |-> NotifyObservers(
                                     SubscribersOf(sim_subscribers, symbol),
                                     raising, after.state)])
                          /\ UNCHANGED <<sim_history, sim_subscribers>>

\* reset_session() (lines 135-163): every symbol of self._current_state.
ResetSession ==
    \E start \in [DOMAIN sim_state -> 0..HISTORY_LOOKBACK_DAYS] :
       /\ \A s \in DOMAIN sim_state :
             start[s] \in IF sim_replay[s].day_index + 1 >= Len(sim_replay[s].window)
                          THEN Starts(sim_history[s]) ELSE {0}
       /\ LET after == [s \in DOMAIN sim_state |->
                           IF s \in DOMAIN sim_replay
                           THEN reset_symbol(sim_replay[s], sim_state[s],
                                             sim_history[s], start[s])
                           ELSE [replay |-> <<>>, state |-> sim_state[s]]]
          IN  /\ sim_replay' = [s \in DOMAIN sim_replay |->
                                   IF s \in DOMAIN sim_state
                                   THEN after[s].replay ELSE sim_replay[s]]
              /\ sim_state' = [s \in DOMAIN sim_state |-> after[s].state]
              /\ sim_out' = Some([op |-> "reset_session", symbol |-> "",
                                  raised |-> FALSE])
       /\ UNCHANGED <<sim_history, sim_subscribers>>

simulatorRest == <<detVars, amVars, engVars, engHist, sub_out, fnVars, rdVars, sesVars, dayVars, wireVars>>

NextSimulator ==
    \/ GenerateTick /\ UNCHANGED simulatorRest
    \/ GenerateTickUnknown /\ UNCHANGED simulatorRest
    \/ ResetSession /\ UNCHANGED simulatorRest

SpecSimulator == InitSimulator /\ [][NextSimulator]_vars

\* The latest call, when it was a generate_tick that raised.
Refused == sim_out # None /\ sim_out[1].op = "generate_tick" /\ sim_out[1].raised

\* C28: a symbol with fewer than 2 days of history has neither cursor nor
\* TickState (so it is not among get_available_symbols()); generate_tick for a
\* symbol that is unknown or was excluded raises, and the call that raises
\* leaves every cursor and every TickState as it was.
C28_ExcludedSymbolsStayOut ==
    /\ [](\A s \in SimSymbols :
            Len(sim_history[s]) < 2
               => s \notin DOMAIN sim_replay /\ s \notin DOMAIN sim_state)
    /\ []((sim_out # None /\ sim_out[1].op = "generate_tick")
            => (sim_out[1].raised
                  <=> \/ sim_out[1].symbol \notin SimSymbols
                      \/ Len(sim_history[sim_out[1].symbol]) < 2))
    /\ [][(sim_out' # None /\ sim_out'[1].op = "generate_tick" /\ sim_out'[1].raised)
            => UNCHANGED <<sim_replay, sim_state>>]_vars

\* generate_tick("NICA") has raised, NICA having a single day of history,
\* while NABIL is in the middle of a day.
C28_Witness ==
    /\ Refused
    /\ sim_out[1].symbol = "NICA"
    /\ Len(sim_history["NICA"]) = 1
    /\ DOMAIN sim_state = {"NABIL"}
    /\ sim_replay["NABIL"].tick_index > 0

\* The latest call, when it was a generate_tick that returned a tick.
Emitted == sim_out # None /\ sim_out[1].op = "generate_tick" /\ ~sim_out[1].raised

C19_PriceFloor ==
    /\ \A s \in DOMAIN sim_state : sim_state[s].price >= MinPrice
    /\ Emitted => sim_out[1].tick.price >= MinPrice

\* What the floor of line 224 does give: a tick that does not end its day
\* carries a price of at least the floor.
PriceFloorWithinTheDay ==
    (Emitted /\ ~sim_out[1].ends_day) => sim_out[1].tick.price >= MinPrice

\* C20: after __init__ and after every generate_tick or reset_session call, every
\* tracked symbol has a cursor with a non-empty window, 0 <= day_index <
\* len(window) and 0 <= tick_index < ticks_per_day.
C20_CursorInRange ==
    /\ DOMAIN sim_replay = DOMAIN sim_state
    /\ \A s \in DOMAIN sim_replay :
          /\ Len(sim_replay[s].window) > 0
          /\ 0 <= sim_replay[s].day_index
          /\ sim_replay[s].day_index < Len(sim_replay[s].window)
          /\ 0 <= sim_replay[s].tick_index
          /\ sim_replay[s].tick_index < sim_replay[s].ticks_per_day

\* A generate_tick that ended the last day of its window: the cursor is back on
\* day 0 of the window chosen anew.
C20_Witness ==
    /\ Emitted
    /\ sim_out[1].ends_day
    /\ sim_replay[sim_out[1].symbol].day_index = 0
    /\ sim_replay[sim_out[1].symbol].tick_index = 0
    /\ sim_out[1].ticks_per_day > 1

\* A window of the symbol's stored history.
IsWindowOf(window, history) ==
    \E start \in 0..Len(history) :
       /\ start + Len(window) <= Len(history)
       /\ window = SubSeq(history, start + 1, start + Len(window))

\* C30: a generate_tick call that finds tick_index = ticks_per_day - 1 ends the
\* day. With a next day in the window, day_index goes up by one, tick_index is
\* 0 and the TickState is seeded: prev_close is the finished day's close, open,
\* high and low are the next day's open, the volume is 0. Without one, a window
\* of the history is chosen in the same call and the cursor is at (0, 0).
C30_DayEndsInsideTheCall ==
    [][(sim_out' # None /\ sim_out'[1].op = "generate_tick" /\ ~sim_out'[1].raised)
         => LET s == sim_out'[1].symbol
                old == sim_replay[s]
                new == sim_replay'[s]
                state == sim_state'[s]
            IN  old.tick_index + 1 = old.ticks_per_day
                  => IF old.day_index + 1 < Len(old.window)
                     THEN /\ new.window = old.window
                          /\ new.day_index = old.day_index + 1
                          /\ new.tick_index = 0
                          /\ state.prev_close = old.window[old.day_index + 1].close
                          /\ state.open = old.window[old.day_index + 2].open
                          /\ state.high = state.open
                          /\ state.low = state.open
                          /\ state.volume = 0
                     ELSE /\ IsWindowOf(new.window, sim_history[s])
                          /\ Len(new.window) = window_size(sim_history[s])
                          /\ new.day_index = 0
                          /\ new.tick_index = 0]_vars

\* The last tick of the first day of a window, several ticks a day: the cursor
\* stands at the start of the second day, which is seeded from the close 11.006.
C30_Witness ==
    /\ Emitted
    /\ sim_out[1].ends_day
    /\ sim_out[1].ticks_per_day = MaxTicksPerDay
    /\ sim_replay[sim_out[1].symbol].day_index = 1
    /\ sim_replay[sim_out[1].symbol].tick_index = 0
    /\ sim_state[sim_out[1].symbol].prev_close = 11006
    /\ sim_state[sim_out[1].symbol].volume = 0
    /\ sim_state[sim_out[1].symbol].price = 11010


(***************************************************************************)
(* Specification of _interpolate_price: one call, on every day of          *)
(* InterpolateDays and every progress k / d with d up to MaxProgressDen.   *)
(***************************************************************************)
MaxProgressDen == 20

\* The example 100 / 120 / 90 / 110, a day with a third decimal, an empty day
\* and a day whose open lies above its "high" and its close below its "low".
InterpolateDays ==
    { Day(100000, 120000, 90000, 110000, 0),
      Day(10000, 12000, 9000, 11006, 0),
      Day(0, 0, 0, 0, 0),
      Day(5000, 4000, 6000, 3000, 0) }

InitInterpolate ==
    /\ InitDetectorIdle
    /\ InitAlertManagerIdle
    /\ InitEngineIdle
    /\ InitSimulatorIdle
    /\ InitReaderIdle /\ InitSessionIdle /\ InitDayIdle /\ InitWireIdle
    /\ fn_args \in { [day |-> day, k |-> k, d |-> d] :
                        day \in InterpolateDays,
                        d \in 1..MaxProgressDen, k \in 0..MaxProgressDen }
    /\ fn_args.k <= fn_args.d
    /\ fn_out = None

CallInterpolatePrice ==
    /\ fn_out = None
    /\ fn_out' = Some(interpolate_price(fn_args.day.open, fn_args.day.high,
                                        fn_args.day.low, fn_args.day.close,
                                        fn_args.k, fn_args.d))
    /\ UNCHANGED <<fn_args, detVars, amVars, engVars, engHist, sub_out, simVars, rdVars, sesVars, dayVars, wireVars>>

NextInterpolate == CallInterpolatePrice

SpecInterpolate == InitInterpolate /\ [][NextInterpolate]_vars

\* The anchors of the walk, <<progress numerator, progress denominator, price>>.
Anchors(day) ==
    << <<0, 1, day.open>>, <<1, 4, day.high>>, <<1, 2, day.low>>,
       <<4, 5, day.close>>, <<1, 1, day.close>> >>

\* The fraction x is start + (end - start) * t, with t the share of the segment
\* from anchor a to anchor b that progress k / d has covered.
OnSegment(x, a, b, k, d) ==
    LET tn == (k * a[2] - a[1] * d) * b[2]
        td == d * (b[1] * a[2] - a[1] * b[2])
    IN  x[1] * td = x[2] * (a[3] * td + (b[3] - a[3]) * tn)

\* C26: the target price is the walk open -> high -> low -> close: on every
\* segment between two anchors (progress 0, 0.25, 0.50, 0.80, 1) that holds
\* the progress, both ends included, it is the linear interpolation between the
\* two anchor prices; so it is open at 0, high at 0.25, low at 0.50 and close
\* from 0.80 on.
C26_FourPhaseWalk ==
    fn_out # None =>
        LET a == Anchors(fn_args.day)
            k == fn_args.k
            d == fn_args.d
        IN  \A i \in 1..4 :
               (a[i][1] * d <= k * a[i][2] /\ k * a[i + 1][2] <= a[i + 1][1] * d)
                  => OnSegment(fn_out[1], a[i], a[i + 1], k, d)

\* The example at progress 0.80 (16 / 20): the target is the close, 110.
C26_Witness ==
    /\ fn_out # None
    /\ fn_args.day = Day(100000, 120000, 90000, 110000, 0)
    /\ fn_args.k = 16 /\ fn_args.d = 20
    /\ fn_out[1][1] = 110000 * fn_out[1][2]


(***************************************************************************)
(* Specification of _pick_replay_window: one call, on a history of         *)
(* 2..MaxPickHistory days that are all different, over every value         *)
(* random.randint may return.                                              *)
(***************************************************************************)
MaxPickHistory == 30

\* The i-th day of the history, oldest first.
DatedDay(i) == Day(1000 * i, 1000 * i, 1000 * i, 1000 * i, i)

InitPick ==
    /\ InitDetectorIdle
    /\ InitAlertManagerIdle
    /\ InitEngineIdle
    /\ InitSimulatorIdle
    /\ InitReaderIdle /\ InitSessionIdle /\ InitDayIdle /\ InitWireIdle
    /\ fn_args \in { [history |-> [i \in 1..n |-> DatedDay(i)]] :
                        n \in 2..MaxPickHistory }
    /\ fn_out = None

CallPickReplayWindow ==
    /\ fn_out = None
    /\ \E start \in Starts(fn_args.history) :
          fn_out' = Some([start |-> start,
                          window |-> pick_replay_window(fn_args.history, start)])
    /\ UNCHANGED <<fn_args, detVars, amVars, engVars, engHist, sub_out, simVars, rdVars, sesVars, dayVars, wireVars>>

NextPick == CallPickReplayWindow

SpecPick == InitPick /\ [][NextPick]_vars

MaxObservers == 2

\* The callbacks that register.
ObserverIds == {1, 2}

\* The symbols subscribe and unsubscribe are called with.
ObservedInputs == {"nabil", "NICA"}

\* The settings of TICKS_PER_DAY of this specification: 1..MaxObservedTicks.
MaxObservedTicks == 1

\* subscribe(symbol, callback), lines 317-321.
Subscribe ==
    \E input \in ObservedInputs, callback \in ObserverIds :
       LET symbol == upper(input)
       IN  /\ Len(SubscribersOf(sim_subscribers, symbol)) < MaxObservers
           /\ sim_subscribers' =
                 [k \in DOMAIN sim_subscribers \cup {symbol} |->
                     IF k = symbol
                     THEN Append(SubscribersOf(sim_subscribers, symbol), callback)
                     ELSE sim_subscribers[k]]
           /\ sim_out' = Some([op |-> "subscribe", symbol |-> symbol,
                               raised |-> FALSE])
           /\ UNCHANGED <<sim_history, sim_replay, sim_state>>

\* unsubscribe(symbol, callback), lines 323-328.
Unsubscribe ==
    \E input \in ObservedInputs, callback \in ObserverIds :
       LET symbol == upper(input)
       IN  /\ sim_subscribers' =
                 IF symbol \in DOMAIN sim_subscribers
                 THEN [sim_subscribers EXCEPT ![symbol] =
                          SelectSeq(@, LAMBDA cb : cb # callback)]
                 ELSE sim_subscribers
           /\ sim_out' = Some([op |-> "unsubscribe", symbol |-> symbol,
                               raised |-> FALSE])
           /\ UNCHANGED <<sim_history, sim_replay, sim_state>>

InitObservers ==
    /\ InitSimulator
    /\ \A s \in SimSymbols : Len(sim_history[s]) >= 2
    /\ \A s \in SimSymbols : sim_replay[s].ticks_per_day <= MaxObservedTicks

NextObservers ==
    \/ Subscribe /\ UNCHANGED simulatorRest
    \/ Unsubscribe /\ UNCHANGED simulatorRest
    \/ GenerateTick /\ UNCHANGED simulatorRest

SpecObservers == InitObservers /\ [][NextObservers]_vars

\* C25: generate_tick calls every callback registered for its symbol, in the
\* order of registration and each with the tick it returns, whether or not
\* callbacks before it raised, and calls no other callback; the call returns
\* the tick, which is the TickState it wrote, and the cursor has moved.
C25_ObserversAreIsolated ==
    /\ [](Emitted =>
            LET call == sim_out[1]
                callbacks == SubscribersOf(sim_subscribers, call.symbol)
            IN  /\ Len(call.notified) = Len(callbacks)
                /\ \A i \in 1..Len(callbacks) :
                      /\ call.notified[i].callback = callbacks[i]
                      /\ call.notified[i].tick = call.tick
                /\ call.tick = sim_state[call.symbol])
    /\ [][(sim_out' # None /\ sim_out'[1].op = "generate_tick" /\ ~sim_out'[1].raised)
            => sim_replay'[sim_out'[1].symbol] # sim_replay[sim_out'[1].symbol]]_vars

\* A tick of NABIL with two callbacks registered, of which the first raised
\* and the second was called all the same, while NICA has a callback too.
C25_Witness ==
    /\ Emitted
    /\ sim_out[1].symbol = "NABIL"
    /\ Len(sim_out[1].notified) = 2
    /\ sim_out[1].notified[1].raised
    /\ ~sim_out[1].notified[2].raised
    /\ "NICA" \in DOMAIN sim_subscribers
    /\ Len(sim_subscribers["NICA"]) > 0


(***************************************************************************)
(* MarketClock (engine/market_clock.py): one call of is_market_open.       *)
(*                                                                         *)
(* A datetime in NPT is [day, minute]: day counts the days from Monday     *)
(* 2025-12-01 (so day 6 is Sunday 2025-12-07, the date of the tests) and   *)
(* minute the minutes since midnight.                                      *)
(***************************************************************************)
\* Config.MARKET_OPEN_HOUR / _MINUTE and MARKET_CLOSE_HOUR / _MINUTE, the
\* defaults of config.py lines 23-26.
MARKET_OPEN_HOUR == 11
MARKET_OPEN_MINUTE == 0
MARKET_CLOSE_HOUR == 15
MARKET_CLOSE_MINUTE == 0

\* Config.MARKET_TRADING_DAYS (config.py line 44), in the numbering of
\* datetime.weekday(): Monday = 0 ... Sunday = 6.
MARKET_TRADING_DAYS == {6, 0, 1, 2, 3}

\* The days of the model: Monday 2025-12-01 .. Sunday 2025-12-(MaxClockDay + 1).
MaxClockDay == 13

\* time(hour, minute) as minutes since midnight.
TimeOf(hour, minute) == 60 * hour + minute

\* The times of day the clock is read at: midnight, 10:59, 11:00, 13:00, 14:59,
\* 15:00, 23:59.
ClockMinutes ==
    {TimeOf(0, 0), TimeOf(10, 59), TimeOf(11, 0), TimeOf(13, 0), TimeOf(14, 59),
     TimeOf(15, 0), TimeOf(23, 59)}

\* Config.PUBLIC_HOLIDAYS after _parse_holidays (lines 31-38): none, or
\* "12-03" and "12-07", as <<month, day of month>>.
HolidayConfigs == { {}, {<<12, 3>>, <<12, 7>>} }

\* dt.weekday() and dt.strftime("%m-%d") of a day of the model.
weekday(dt) == dt.day % 7
month_day(dt) == <<12, dt.day + 1>>

\* is_trading_day (lines 44-55).
is_trading_day(clk, dt) ==
    IF weekday(dt) \notin clk.trading_days THEN FALSE
    ELSE IF month_day(dt) \in clk.holidays THEN FALSE
    ELSE TRUE

\* A mutant of the trading hours: the closing time is still inside.
is_within_trading_hours_closed(clk, dt) ==
    clk.open_time <= dt.minute /\ dt.minute <= clk.close_time

\* is_within_trading_hours (lines 57-62).
is_within_trading_hours(clk, dt) ==
    clk.open_time <= dt.minute /\ dt.minute < clk.close_time

\* is_market_open (lines 64-73); now is what now_npt() returns.
is_market_open(clk, now) ==
    IF clk.force_open THEN TRUE
    ELSE is_trading_day(clk, now) /\ is_within_trading_hours(clk, now)

\* MarketClock.__init__ (lines 24-29) with force_open as configured or as set
\* on the object afterwards.
MarketClock(force_open, holidays) ==
    [open_time |-> TimeOf(MARKET_OPEN_HOUR, MARKET_OPEN_MINUTE),
     close_time |-> TimeOf(MARKET_CLOSE_HOUR, MARKET_CLOSE_MINUTE),
     trading_days |-> MARKET_TRADING_DAYS,
     force_open |-> force_open,
     holidays |-> holidays]

InitClock ==
    /\ InitDetectorIdle
    /\ InitAlertManagerIdle
    /\ InitEngineIdle
    /\ InitSimulatorIdle
    /\ InitReaderIdle /\ InitSessionIdle /\ InitDayIdle /\ InitWireIdle
    /\ fn_args \in { [clock |-> MarketClock(force_open, holidays),
                      now |-> [day |-> day, minute |-> minute]] :
                        force_open \in BOOLEAN, holidays \in HolidayConfigs,
                        day \in 0..MaxClockDay, minute \in ClockMinutes }
    /\ fn_out = None

CallIsMarketOpen ==
    /\ fn_out = None
    /\ fn_out' = Some(is_market_open(fn_args.clock, fn_args.now))
    /\ UNCHANGED <<fn_args, detVars, amVars, engVars, engHist, sub_out, simVars, rdVars, sesVars, dayVars, wireVars>>

NextClock == CallIsMarketOpen

SpecClock == InitClock /\ [][NextClock]_vars

\* The name of a day of the model; day 0 is a Monday.
DayName(day) == <<"Mon", "Tue", "Wed", "Thu", "Fri", "Sat", "Sun">>[(day % 7) + 1]

\* C29: the clock reports open exactly when force_open is set, or the day is
\* one of Sunday .. Thursday, its date is not a configured holiday and the time
\* of day t satisfies 11:00 <= t < 15:00.
C29_OpenIffForcedOrTradingTime ==
    fn_out # None =>
        LET now == fn_args.now
            t == now.minute
        IN  fn_out[1] <=>
               \/ fn_args.clock.force_open
               \/ /\ DayName(now.day) \in {"Sun", "Mon", "Tue", "Wed", "Thu"}
                  /\ <<12, now.day + 1>> \notin fn_args.clock.holidays
                  /\ 11 * 60 <= t
                  /\ t < 15 * 60

\* Sunday 2025-12-14 at 15:00, not forced and not a holiday: closed.
C29_Witness ==
    /\ fn_out # None
    /\ ~fn_args.clock.force_open
    /\ fn_args.now = [day |-> 13, minute |-> 15 * 60]
    /\ fn_out[1] = FALSE


(***************************************************************************)
(* A request thread reads a TickState while the scheduler's worker writes  *)
(* it.  get_latest_tick returns the dict of self._current_state itself and *)
(* get_all_ticks a copy of the outer dict only (lines 165-172), so the     *)
(* reader reads the fields of the very dict generate_tick and              *)
(* reset_session assign to, one item at a time; no lock is taken on either *)
(* side.  A write is <<symbol, field, value>>.                             *)
(***************************************************************************)
\* The settings of TICKS_PER_DAY of this specification: 1..MaxReaderTicks.
MaxReaderTicks == 2

\* The number of calls of the worker one read is followed across.
MaxOverlappedCalls == 1

\* The worker enters a call while no read is in progress, or while the read in
\* progress has seen fewer than MaxOverlappedCalls calls complete.
WithinOverlap == Cardinality(rd_base) <= MaxOverlappedCalls

\* The fields a reader takes from the dict, in the order of its keys.
ReadFields == <<"price", "high", "low", "volume", "change", "change_pct", "prev_close">>

\* _advance_replay's assignments to the state (lines 124-130); price is
\* state["price"] at that moment.
advance_replay_writes(symbol, price, window) ==
    << <<symbol, "prev_close", price>>,
       <<symbol, "open", window[1].open>>,
       <<symbol, "high", window[1].open>>,
       <<symbol, "low", window[1].open>>,
       <<symbol, "volume", 0>>,
       <<symbol, "replay_day", 1>> >>

\* generate_tick's assignments to the state, in the order of lines 231-266,
\* from the cursor enter_day left.
generate_tick_writes(symbol, replay, state, history, noise, tick_volume, start) ==
    LET day == replay.window[replay.day_index + 1]
        target_price == interpolate_price(day.open, day.high, day.low, day.close,
                                          ProgressNum(replay), ProgressDen(replay))
        noisy == <<target_price[1] + noise * target_price[2], target_price[2]>>
        new_price == FracMax(noisy, Frac(MinPrice))
        prev_close == state.prev_close
        top == FracMax(Frac(state.high), new_price)
        bottom == FracMin(Frac(state.low), new_price)
        update ==
            << <<symbol, "price", Round2(new_price[1], new_price[2])>>,
               <<symbol, "high", Round2(top[1], top[2])>>,
               <<symbol, "low", Round2(bottom[1], bottom[2])>>,
               <<symbol, "volume", state.volume + tick_volume>>,
               <<symbol, "change",
                 Round2(new_price[1] - prev_close * new_price[2], new_price[2])>>,
               <<symbol, "change_pct", change_pct_of(new_price, prev_close)>> >>
        snap ==
            << <<symbol, "price", Round2(day.close, 1)>>,
               <<symbol, "change", Round2(day.close - prev_close, 1)>>,
               <<symbol, "change_pct", change_pct_of(Frac(day.close), prev_close)>> >>
        next_index == replay.day_index + 1
        seed ==
            IF next_index < Len(replay.window)
            THEN << <<symbol, "prev_close", day.close>>,
                    <<symbol, "open", replay.window[next_index + 1].open>>,
                    <<symbol, "high", replay.window[next_index + 1].open>>,
                    <<symbol, "low", replay.window[next_index + 1].open>>,
                    <<symbol, "volume", 0>>,
                    <<symbol, "replay_day", next_index + 1>> >>
            ELSE advance_replay_writes(symbol, Round2(day.close, 1),
                                       pick_replay_window(history, start))
    IN  IF EndsDay(replay) THEN update \o snap \o seed ELSE update

\* reset_session's assignments to the state of one symbol (lines 145-163).
reset_symbol_writes(symbol, replay, state, history, start) ==
    IF replay.day_index + 1 >= Len(replay.window)
    THEN advance_replay_writes(symbol, state.price, pick_replay_window(history, start))
    ELSE LET day_data == replay.window[replay.day_index + 2]
             prev_close == state.price
         IN  << <<symbol, "prev_close", prev_close>>,
                <<symbol, "open", day_data.open>>,
                <<symbol, "high", day_data.open>>,
                <<symbol, "low", day_data.open>>,
                <<symbol, "price", day_data.open>>,
                <<symbol, "volume", 0>>,
                <<symbol, "change", Round2(day_data.open - prev_close, 1)>>,
                <<symbol, "change_pct", change_pct_of(Frac(day_data.open), prev_close)>>,
                <<symbol, "replay_day", replay.day_index + 2>> >>

\* The worker enters generate_tick(symbol): the values are computed, nothing
\* is written yet.
BeginGenerateTick ==
    /\ wr_call = None
    /\ WithinOverlap
    /\ \E symbol \in DOMAIN sim_state :
       LET history == sim_history[symbol]
           replay == sim_replay[symbol]
           day == replay.window[replay.day_index + 1]
       IN  \E noise \in NoiseChoices,
              tick_volume \in TickVolumes(day.volume, replay.ticks_per_day,
                                          ProgressNum(replay), ProgressDen(replay)),
              start \in IF EndsWindow(replay) THEN Starts(history) ELSE {0} :
           LET after == generate_tick(replay, sim_state[symbol], history, noise,
                                      tick_volume, start)
           IN  /\ wr_call' = Some("generate_tick")
               /\ wr_todo' = generate_tick_writes(symbol, replay, sim_state[symbol],
                                                  history, noise, tick_volume, start)
               /\ wr_goal' = Some([replay |-> [sim_replay EXCEPT ![symbol] = after.replay],
                                   state |-> [sim_state EXCEPT ![symbol] = after.state]])
    /\ UNCHANGED <<sim_history, sim_replay, sim_state, sim_subscribers, sim_out,
                   completed, rd_symbol, rd_todo, rd_seen, rd_base>>

\* The worker enters reset_session().
BeginResetSession ==
    /\ wr_call = None
    /\ WithinOverlap
    /\ \E start \in [DOMAIN sim_state -> 0..HISTORY_LOOKBACK_DAYS] :
       /\ \A s \in DOMAIN sim_state :
             start[s] \in IF sim_replay[s].day_index + 1 >= Len(sim_replay[s].window)
                          THEN Starts(sim_history[s]) ELSE {0}
       /\ LET after == [s \in DOMAIN sim_state |->
                           reset_symbol(sim_replay[s], sim_state[s], sim_history[s],
                                        start[s])]
              symbol == CHOOSE s \in DOMAIN sim_state : TRUE
          IN  /\ wr_call' = Some("reset_session")
              /\ wr_todo' = reset_symbol_writes(symbol, sim_replay[symbol],
                                                sim_state[symbol], sim_history[symbol],
                                                start[symbol])
              /\ wr_goal' = Some([replay |-> [s \in DOMAIN sim_state |-> after[s].replay],
                                  state |-> [s \in DOMAIN sim_state |-> after[s].state]])
    /\ UNCHANGED <<sim_history, sim_replay, sim_state, sim_subscribers, sim_out,
                   completed, rd_symbol, rd_todo, rd_seen, rd_base>>

\* The worker makes its next assignment to the dict.
WriteField ==
    /\ wr_todo # <<>>
    /\ LET w == Head(wr_todo)
       IN  sim_state' = [sim_state EXCEPT ![w[1]][w[2]] = w[3]]
    /\ wr_todo' = Tail(wr_todo)
    /\ UNCHANGED <<sim_history, sim_replay, sim_subscribers, sim_out, wr_call, wr_goal,
                   completed, rd_symbol, rd_todo, rd_seen, rd_base>>

\* The call returns: the update is complete.
FinishWrite ==
    /\ wr_call # None
    /\ wr_todo = <<>>
    /\ sim_replay' = wr_goal[1].replay
    /\ completed' = sim_state
    /\ rd_base' = IF rd_symbol # None THEN rd_base \cup {sim_state[rd_symbol[1]]}
                  ELSE rd_base
    /\ wr_call' = None
    /\ wr_goal' = None
    /\ UNCHANGED <<sim_history, sim_state, sim_subscribers, sim_out, wr_todo,
                   rd_symbol, rd_todo, rd_seen>>

\* A request thread calls get_latest_tick(symbol) and holds the dict.
StartRead ==
    /\ rd_symbol = None
    /\ \E symbol \in DOMAIN sim_state :
          /\ rd_symbol' = Some(symbol)
          /\ rd_base' = {completed[symbol]}
    /\ rd_todo' = ReadFields
    /\ rd_seen' = <<>>
    /\ UNCHANGED <<simVars, wr_call, wr_todo, wr_goal, completed>>

\* It reads the next field of the dict.
ReadField ==
    /\ rd_todo # <<>>
    /\ rd_seen' = Append(rd_seen, <<Head(rd_todo), sim_state[rd_symbol[1]][Head(rd_todo)]>>)
    /\ rd_todo' = Tail(rd_todo)
    /\ UNCHANGED <<simVars, wr_call, wr_todo, wr_goal, completed, rd_symbol, rd_base>>

\* The request is answered.
ReturnRead ==
    /\ rd_symbol # None
    /\ rd_todo = <<>>
    /\ rd_symbol' = None
    /\ rd_seen' = <<>>
    /\ rd_base' = {}
    /\ UNCHANGED <<simVars, wr_call, wr_todo, wr_goal, completed, rd_todo>>

readersRest == <<detVars, amVars, engVars, engHist, sub_out, fnVars, sesVars, dayVars, wireVars>>

\* The provider as constructed, NABIL the one symbol tracked, on the two-day
\* history whose first day walks 10 -> 12 -> 9 -> 11.006.
InitReaders ==
    /\ InitDetectorIdle
    /\ InitAlertManagerIdle
    /\ InitEngineIdle
    /\ InitFnIdle
    /\ InitSessionIdle /\ InitDayIdle /\ InitWireIdle
    /\ sim_history = [s \in SimSymbols |->
                         IF s = "NABIL"
                         THEN <<Day(10000, 12000, 9000, 11006, 3), QuietDay>>
                         ELSE <<QuietDay>>]
    /\ \E ticks_per_day \in 1..MaxReaderTicks :
          /\ sim_replay = [s \in Tracked(sim_history) |->
                ReplayCursor(pick_replay_window(sim_history[s], 0), ticks_per_day)]
          /\ sim_state = [s \in Tracked(sim_history) |->
                TickState(pick_replay_window(sim_history[s], 0)[1])]
    /\ sim_subscribers = <<>>
    /\ sim_out = None
    /\ wr_call = None
    /\ wr_todo = <<>>
    /\ wr_goal = None
    /\ completed = sim_state
    /\ rd_symbol = None
    /\ rd_todo = <<>>
    /\ rd_seen = <<>>
    /\ rd_base = {}

NextReaders ==
    \/ BeginGenerateTick /\ UNCHANGED readersRest
    \/ BeginResetSession /\ UNCHANGED readersRest
    \/ WriteField /\ UNCHANGED readersRest
    \/ FinishWrite /\ UNCHANGED readersRest
    \/ StartRead /\ UNCHANGED readersRest
    \/ ReadField /\ UNCHANGED readersRest
    \/ ReturnRead /\ UNCHANGED readersRest

SpecReaders == InitReaders /\ [][NextReaders]_vars

\* The assignments of a call, made one by one, end in the TickState the call
\* gives as one step.
WritesReachGoal ==
    (wr_call # None /\ wr_todo = <<>>) => sim_state = wr_goal[1].state

\* C24: what a reader has read from a symbol's dict is the content of one
\* completed update: the TickState as it stood when the read began, or as one
\* of the calls completed during the read left it.
C24_ReadersSeeOneUpdate ==
    (rd_symbol # None /\ rd_todo = <<>>)
        => \E c \in rd_base :
              \A i \in 1..Len(rd_seen) : rd_seen[i][2] = c[rd_seen[i][1]]


(***************************************************************************)
(* The scheduler and the session reset.                                    *)
(***************************************************************************)
\* C22: a cycle calls provider.reset_session() exactly when it observes the
\* market open after the previous observation was closed: once in the cycle of
\* every closed->open edge and in no other cycle, whatever failed in a cycle
\* before it.
C22_ResetOncePerOpenEdge ==
    (cyc # None /\ LastCycle.observed) =>
        (LastCycle.reset_called <=> (LastCycle.is_open /\ ~LastCycle.prev_obs))


(***************************************************************************)
(* The scheduler driving the SimulatorProvider: one worker, started once,  *)
(* whose cycles call reset_session and generate_tick on the provider's     *)
(* state.  The clock is any clock: its queries return or raise.  The       *)
(* provider's calls do not raise on the symbols it tracks.                 *)
(***************************************************************************)
\* The settings of TICKS_PER_DAY of this specification: 1..MaxSessionTicks.
MaxSessionTicks == 2

\* A session is followed until a symbol has had MaxAdvances advances.
MaxAdvances == 2

NoAdvances(symbols) == [s \in symbols |-> [reset |-> 0, exhaustion |-> 0]]

Advances(a, s) == a[s].reset + a[s].exhaustion

\* A mutant of _generate_all_ticks: the loop stops after the first symbol.
tick_calls_first_only(symbols) == SubSeq(symbols, 1, 1)

\* _generate_all_ticks, lines 96-100: `for symbol in symbols`, the symbols
\* generate_tick is called with, in order.
tick_calls(symbols) == symbols

\* reset_session(), lines 139-163, on every symbol of self._current_state.
reset_all(replay, state, history, start) ==
    [s \in DOMAIN state |-> reset_symbol(replay[s], state[s], history[s], start[s])]

\* The generate_tick calls of one cycle (market_engine.py, lines 98-100) on
\* the provider's state; the symbols of get_available_symbols() are distinct.
generate_all_ticks(calls, replay, state, history, noise, tick_volume, start) ==
    [s \in DOMAIN state |->
        IF \E i \in 1..Len(calls) : calls[i] = s
        THEN LET entered == enter_day(replay[s], state[s], history[s], start[s])
             IN  generate_tick(entered.replay, entered.state, history[s], noise[s],
                               tick_volume[s], start[s])
        ELSE [replay |-> replay[s], state |-> state[s]]]

\* The window starts random.randint can return to the symbols that re-pick
\* their window; rewinds[s] tells whether symbol s does.
StartChoices(history, rewinds) ==
    {f \in [DOMAIN rewinds -> 0..HISTORY_LOOKBACK_DAYS] :
        \A s \in DOMAIN rewinds :
            f[s] \in IF rewinds[s] THEN Starts(history[s]) ELSE {0}}

\* The tick volumes of line 227-228 for every symbol.
TickVolumeChoices(replay) ==
    LET of(s) == TickVolumes(replay[s].window[replay[s].day_index + 1].volume,
                             replay[s].ticks_per_day,
                             ProgressNum(replay[s]), ProgressDen(replay[s]))
    IN  {f \in [DOMAIN replay -> UNION {of(s) : s \in DOMAIN replay}] :
            \A s \in DOMAIN replay : f[s] \in of(s)}

\* One cycle of worker w (_run_loop, lines 71-94) with its calls carried out
\* on the provider.
SessionCycle(w) ==
    /\ worker_pc[w] = "cycle"
    /\ \E query \in {"open", "closed", "raise"} :
       \E status_raises \in IF query # "raise" /\ (query = "open") # was_open
                            THEN BOOLEAN ELSE {FALSE} :
       LET symbols == DOMAIN sim_state
           idle == [s \in symbols |-> 0]
           log == CycleLog(w, query, status_raises, FALSE, symbols, {})
           opens == log.observed /\ log.is_open /\ ~log.prev_obs
           calls == IF log.generated THEN tick_calls(AvailableSymbols) ELSE <<>>
       IN  /\ RunCycle(w, query, status_raises, FALSE, symbols, {})
           /\ \E reset_start \in
                  IF log.reset_called
                  THEN StartChoices(sim_history,
                          [s \in symbols |-> sim_replay[s].day_index + 1
                                                >= Len(sim_replay[s].window)])
                  ELSE {idle} :
              LET r1 == IF log.reset_called
                        THEN reset_all(sim_replay, sim_state, sim_history, reset_start)
                        ELSE [s \in symbols |->
                                 [replay |-> sim_replay[s], state |-> sim_state[s]]]
                  replay1 == [s \in symbols |-> r1[s].replay]
                  state1 == [s \in symbols |-> r1[s].state]
              IN  \E noise \in IF log.generated THEN [symbols -> NoiseChoices]
                               ELSE {idle} :
                  \E tick_volume \in IF log.generated THEN TickVolumeChoices(replay1)
                                     ELSE {idle} :
                  \E start \in IF log.generated
                               THEN StartChoices(sim_history,
                                       [s \in symbols |-> EndsWindow(replay1[s])])
                               ELSE {idle} :
                  LET r2 == generate_all_ticks(calls, replay1, state1, sim_history,
                                               noise, tick_volume, start)
                      base == IF opens \/ ses_advances = None THEN NoAdvances(symbols)
                              ELSE ses_advances[1]
                      counted == [s \in symbols |->
                          [reset |-> base[s].reset
                                       + IF log.reset_called THEN 1 ELSE 0,
                           exhaustion |-> base[s].exhaustion
                                       + IF (\E i \in 1..Len(calls) : calls[i] = s)
                                            /\ EndsDay(replay1[s])
                                         THEN 1 ELSE 0]]
                  IN  /\ \A s \in symbols : Advances(counted, s) <= MaxAdvances
                      /\ sim_replay' = [s \in symbols |-> r2[s].replay]
                      /\ sim_state' = [s \in symbols |-> r2[s].state]
                      /\ ses_advances' = IF ses_advances = None /\ ~opens THEN None
                                         ELSE Some(counted)
                      /\ ses_calls' =
                            (IF log.reset_called THEN << <<"reset_session">> >>
                             ELSE <<>>)
                            \o [i \in 1..Len(calls) |-> <<"generate_tick", calls[i]>>]
    /\ UNCHANGED <<sim_history, sim_subscribers, sim_out>>

\* The engine and the provider as constructed (run.py), the provider tracking
\* both symbols.
InitSession ==
    /\ InitDetectorIdle
    /\ InitAlertManagerIdle
    /\ InitEngineIdle
    /\ InitFnIdle
    /\ InitReaderIdle
    /\ InitSessionIdle /\ InitDayIdle /\ InitWireIdle
    /\ sim_history = [s \in SimSymbols |->
                         IF s = "NABIL"
                         THEN <<Day(10000, 12000, 9000, 11006, 3), Day(0, 0, 0, 0, 0)>>
                         ELSE <<QuietDay, QuietDay>>]
    /\ \E ticks_per_day \in 1..MaxSessionTicks :
          /\ sim_replay = [s \in Tracked(sim_history) |->
                ReplayCursor(pick_replay_window(sim_history[s], 0), ticks_per_day)]
          /\ sim_state = [s \in Tracked(sim_history) |->
                TickState(pick_replay_window(sim_history[s], 0)[1])]
    /\ sim_subscribers = <<>>
    /\ sim_out = None

sessionRest == <<detVars, amVars, sub_out, fnVars, rdVars, dayVars, wireVars>>

NextSession ==
    \/ OnTick /\ UNCHANGED <<sessionRest, simVars, sesVars>>
    \/ StartCheck("main") /\ UNCHANGED <<sessionRest, simVars, sesVars>>
    \/ StartSpawn("main") /\ UNCHANGED <<sessionRest, simVars, sesVars>>
    \/ \E w \in Threads : LoopTest(w) /\ UNCHANGED <<sessionRest, simVars, sesVars>>
    \/ \E w \in Threads : SessionCycle(w) /\ UNCHANGED sessionRest

SpecSession == InitSession /\ [][NextSession]_vars

\* A cycle of some worker ran in this step.
RanCycle == \E w \in Threads : worker_pc[w] = "cycle" /\ worker_pc'[w] = "sleep"

\* C21: from the cycle that observes the market open after closed until the
\* next such cycle, every symbol's day_index has been advanced once, by
\* reset_session or by the tick that exhausts the day, not by both and not
\* twice.
C21_OneAdvancePerSession ==
    ses_advances # None =>
        \A s \in DOMAIN ses_advances[1] : Advances(ses_advances[1], s) = 1


\* The symbols of the generate_tick calls of the latest cycle, in order.
TickCalls(calls) ==
    LET ticks == SelectSeq(calls, LAMBDA c : c[1] = "generate_tick")
    IN  [i \in 1..Len(ticks) |-> ticks[i][2]]

\* What C23 says of the cycles that make no generate_tick call: a cycle that
\* calls generate_tick observed the market open, and a cycle that observed it
\* closed calls nothing on the provider, leaves every cursor and TickState as
\* it was and delivers no batch.
QuietWhenClosed(c) ==
    /\ c.generated => (c.observed /\ c.is_open)
    /\ TickCalls(ses_calls') # <<>> => c.generated
    /\ (c.observed /\ ~c.is_open) =>
          /\ ses_calls' = <<>>
          /\ UNCHANGED <<sim_replay, sim_state>>
          /\ c.delivered = <<>>

\* Every symbol's cursor is one tick further than the cycle's reset_session, if
\* it called it, or else the previous cycle left it.
OneTickEach(c) ==
    \A s \in DOMAIN sim_replay :
        sim_replay'[s].tick_index =
            ((IF c.reset_called THEN 0 ELSE sim_replay[s].tick_index) + 1)
                % sim_replay[s].ticks_per_day

MaxDayTicks == 3

\* The open of the day the cursor stands on (no day when the cursor is past
\* its window).
DayOpens(replay) ==
    IF replay.day_index < Len(replay.window)
    THEN {replay.window[replay.day_index + 1].open}
    ELSE {}

\* generate_tick(symbol) returns a tick: its price joins the prices of the
\* day, or the day ended and the next one begins at its open.
DayTick ==
    /\ GenerateTick
    /\ LET o == sim_out'[1]
       IN  day_seen' = [day_seen EXCEPT ![o.symbol] =
                           IF o.ends_day THEN DayOpens(sim_replay'[o.symbol])
                           ELSE @ \cup {o.tick.price}]

\* reset_session(): every symbol begins a day.
DayReset ==
    /\ ResetSession
    /\ day_seen' = [s \in DOMAIN sim_replay' |-> DayOpens(sim_replay'[s])]

\* The provider as constructed on a three-day history of NABIL, whose window
\* is its first or its last two days, and a two-day history of NICA.
InitDay ==
    /\ InitDetectorIdle
    /\ InitAlertManagerIdle
    /\ InitEngineIdle
    /\ InitFnIdle
    /\ InitReaderIdle
    /\ InitSessionIdle
    /\ InitWireIdle
    /\ sim_history = [s \in SimSymbols |->
                         IF s = "NABIL"
                         THEN <<Day(10000, 12000, 9000, 11006, 3), Day(0, 0, 0, 0, 0),
                                Day(10000, 12000, 9000, 11006, 3)>>
                         ELSE <<QuietDay, QuietDay>>]
    /\ \E ticks_per_day \in 1..MaxDayTicks :
       \E start \in [Tracked(sim_history) -> 0..HISTORY_LOOKBACK_DAYS] :
          /\ \A s \in Tracked(sim_history) : start[s] \in Starts(sim_history[s])
          /\ sim_replay = [s \in Tracked(sim_history) |->
                ReplayCursor(pick_replay_window(sim_history[s], start[s]),
                             ticks_per_day)]
          /\ sim_state = [s \in Tracked(sim_history) |->
                TickState(pick_replay_window(sim_history[s], start[s])[1])]
    /\ sim_subscribers = <<>>
    /\ sim_out = None
    /\ day_seen = [s \in DOMAIN sim_replay |-> DayOpens(sim_replay[s])]

dayRest == <<detVars, amVars, engVars, engHist, sub_out, fnVars, rdVars, sesVars, wireVars>>

NextDay ==
    \/ DayTick /\ UNCHANGED dayRest
    \/ DayReset /\ UNCHANGED dayRest

SpecDay == InitDay /\ [][NextDay]_vars

\* The latest call, when it was reset_session.
WasReset == sim_out # None /\ sim_out[1].op = "reset_session"

\* C31: reset_session moves every tracked symbol's cursor to tick 0 of the
\* next day of its window, wherever in the day it stood; when there is no next
\* day, a window of the symbol's history is chosen and the cursor is at (0, 0).
C31_ResetStepsOneDay ==
    [][(sim_out' # None /\ sim_out'[1].op = "reset_session")
         => \A s \in DOMAIN sim_replay :
               LET old == sim_replay[s]
                   new == sim_replay'[s]
               IN  /\ new.tick_index = 0
                   /\ new.ticks_per_day = old.ticks_per_day
                   /\ IF old.day_index + 1 < Len(old.window)
                      THEN new.window = old.window /\ new.day_index = old.day_index + 1
                      ELSE /\ IsWindowOf(new.window, sim_history[s])
                           /\ Len(new.window) = window_size(sim_history[s])
                           /\ new.day_index = 0]_vars

\* reset_session was the latest call and left NABIL on the second day of its
\* window and NICA on the first: one stepped within its window, the other had
\* its window chosen anew.
C31_Witness ==
    /\ WasReset
    /\ sim_replay["NABIL"].day_index = 1
    /\ sim_replay["NICA"].day_index = 0
    /\ sim_replay["NABIL"].tick_index = 0


SetMax(S) == CHOOSE x \in S : \A y \in S : y <= x

SetMin(S) == CHOOSE x \in S : \A y \in S : x <= y

C33_PriceWithinExtrema ==
    Emitted => /\ sim_out[1].tick.low <= sim_out[1].tick.price
               /\ sim_out[1].tick.price <= sim_out[1].tick.high

\* What lines 231-233 do give: a tick that does not end its day has its price
\* between its low and its high.
PriceWithinExtremaWithinTheDay ==
    (Emitted /\ ~sim_out[1].ends_day)
        => /\ sim_out[1].tick.low <= sim_out[1].tick.price
           /\ sim_out[1].tick.price <= sim_out[1].tick.high

\* C34: every tick generate_tick returns has change = price - prev_close and
\* change_pct the percentage of that difference in prev_close (0 when
\* prev_close is 0), with the price and the prev_close the same tick carries.
C34_ChangeAgainstOwnPrevClose ==
    Emitted =>
        LET tick == sim_out[1].tick
        IN  /\ tick.change = tick.price - tick.prev_close
            /\ tick.change_pct = change_pct_of(Frac(tick.price), tick.prev_close)

\* C36: after reset_session every tracked symbol's price, open, high and low
\* are the open of the day its cursor stands on, its volume is 0 and its
\* change is its price minus its prev_close.
C36_ResetSeedsTheDay ==
    WasReset =>
        \A s \in DOMAIN sim_state :
            LET day_open == sim_replay[s].window[sim_replay[s].day_index + 1].open
                state == sim_state[s]
            IN  /\ state.price = day_open
                /\ state.open = day_open
                /\ state.high = day_open
                /\ state.low = day_open
                /\ state.volume = 0
                /\ state.change = state.price - state.prev_close

\* What reset_session does give in both branches: open, high and low are the
\* open of the day the cursor stands on and the volume is 0.
ResetSeedsOpenHighLow ==
    WasReset =>
        \A s \in DOMAIN sim_state :
            LET day_open == sim_replay[s].window[sim_replay[s].day_index + 1].open
                state == sim_state[s]
            IN  /\ state.open = day_open
                /\ state.high = day_open
                /\ state.low = day_open
                /\ state.volume = 0


\* C35: the first cycle of a started engine that generates ticks (no cycle
\* before it observed the market open) generates them from the cursor the
\* provider was constructed with, day 0 and tick 0 of the initial window: it
\* makes no reset_session call before its generate_tick calls, and every
\* symbol's first day has had a tick when the cycle ends.
C35_FirstTickFromFirstDay ==
    [][(RanCycle /\ ses_advances = None /\ TickCalls(ses_calls') # <<>>)
         => /\ \A i \in 1..Len(ses_calls') : ses_calls'[i][1] # "reset_session"
            /\ \A s \in DOMAIN sim_replay :
                  /\ sim_replay[s].day_index = 0
                  /\ sim_replay[s].tick_index = 0
                  /\ ses_advances'[1][s].reset = 0]_vars


(***************************************************************************)
(* More claims about the alert manager.                                    *)
(***************************************************************************)
\* C40: a trigger whose key has no CooldownEntry passes the gate at every
\* clock value and is emitted by the next step of the call, which creates the
\* entry with the clock value of the emission.
C40_FirstFireAlwaysEmitted ==
    [][ /\ (GateStep /\ GatedKey \notin DOMAIN cooldowns) =>
              /\ pt_pc' = "set"
              /\ pt_alerts' = pt_alerts
        /\ (pt_pc = "set" /\ ptVars' # ptVars /\ GatedKey \notin DOMAIN cooldowns) =>
              /\ GatedKey \in DOMAIN cooldowns'
              /\ cooldowns'[GatedKey] = clock
              /\ pt_triggered'[Len(pt_triggered')].alert = Head(pt_alerts)
      ]_vars

\* What the default of line 152 gives: a trigger whose key has no CooldownEntry
\* passes the gate exactly when the clock value is at least cooldown_seconds.
FirstFireOnceClockIsPastCooldown ==
    [][(GateStep /\ GatedKey \notin DOMAIN cooldowns) =>
          ((pt_pc' = "set") <=> (clock >= cooldown_seconds))]_vars

(***************************************************************************)
(* The wired pipeline of run.py: the engine's worker calls on_tick_batch,  *)
(* which calls process_ticks and broadcasts what it returns, while the     *)
(* request threads of the socket server (async_mode="threading") call      *)
(* add_subscription and remove_subscription on the same manager. No lock   *)
(* guards self._subscriptions. process_ticks is followed iterator step by  *)
(* iterator step: a Python dict iterator raises RuntimeError at its next   *)
(* step once the dict it walks has changed size.                           *)
(***************************************************************************)
\* handle_set_threshold hands data.get("price_threshold_pct", 3.0) to
\* add_subscription as the client sent it. A JSON value that is not a number
\* (a string, a list) is written NotANumber.
NotANumber == -1

MaxConcurrentChanges == 1   \* subscription changes made while one process_ticks call runs

\* The clients: u1 watches two symbols, u2 one.
WiredPairs == {<<"u1", "NABIL">>, <<"u1", "NICA">>, <<"u2", "NABIL">>}

WiredPriceThresholds(user_id) ==
    IF user_id = "u1" THEN {OwnPriceThreshold(user_id), NotANumber}
    ELSE {OwnPriceThreshold(user_id)}

\* The batches the engine hands over: NABIL always, NICA in some, every tick
\* 5 % under its previous close on three times the average volume.
WiredBatches ==
    {b \in ProcessBatches : "NABIL" \in DOMAIN b /\ \A x \in DOMAIN b : b[x].price = 95}

\* The (user_id, symbol) pairs of the subscriptions held.
PairsOf(subs) ==
    {<<FlattenSubs(subs)[i].user_id, FlattenSubs(subs)[i].symbol>> :
        i \in 1..Len(FlattenSubs(subs))}

\* spike_detector.py line 80, abs(change_pct) >= threshold, raises TypeError on
\* a threshold that is not a number; line 74 returns before it when
\* prev_close <= 0.
analyze_tick_raises(tick, price_threshold_pct) ==
    price_threshold_pct = NotANumber /\ tick.prev_close > 0

\* _set_cooldown for every key of a set, at clock value now.
set_cooldowns(keys, now) ==
    [k \in DOMAIN cooldowns \cup keys |-> IF k \in keys THEN now ELSE cooldowns[k]]

RECURSIVE NotifyAll(_, _, _)
\* Lines 141-145 for each of the alerts in turn.
NotifyAll(listeners, user_id, alerts) ==
    IF alerts = <<>> THEN <<>>
    ELSE NotifyAlertListeners(listeners, {}, user_id, Head(alerts))
         \o NotifyAll(listeners, user_id, Tail(alerts))

\* broadcast_alert(socketio, user_id, alert): one "alert:triggered" message.
broadcast_alert(user_id, alert) == [user_id |-> user_id, alert |-> alert]

\* on_alert_triggered, the listener run.py registers with on_alert, for each
\* of the alerts in turn: it broadcasts the alert.
on_alert_triggered(user_id, alerts) ==
    [i \in 1..Len(alerts) |-> broadcast_alert(user_id, alerts[i])]

\* run.py lines 117-118: every entry of the returned list is broadcast.
broadcast_triggered(triggered) ==
    [i \in 1..Len(triggered) |-> broadcast_alert(triggered[i].user_id, triggered[i].alert)]

wiredKept == <<cooldown_seconds, alert_listeners, clock, pt_pos, pt_alerts, histVars>>

\* on_tick_batch(ticks) is called by the engine; it calls process_ticks,
\* which sets triggered = [] and starts to walk self._subscriptions.
OnTickBatch(ticks) ==
    /\ pt_pc = "idle"
    /\ pt_pc' = "users"
    /\ pt_ticks' = ticks
    /\ pt_triggered' = <<>>
    /\ pt_notified' = <<>>
    /\ batch' = Some([user |-> 0, sub |-> 0,
                      outer_used |-> Len(subscriptions), inner_used |-> 0,
                      evaluated |-> {}, stable |-> PairsOf(subscriptions),
                      changes |-> 0, broadcasts |-> <<>>, error |-> None])
    /\ batch_out' = None
    /\ UNCHANGED <<subscriptions, cooldowns, wiredKept>>

\* The exception leaves process_ticks at the statement it is raised by.
WiredRaise(error, b) ==
    /\ pt_pc' = "raised"
    /\ batch' = Some([b EXCEPT !.error = Some(error)])
    /\ UNCHANGED <<subscriptions, cooldowns, pt_ticks, pt_triggered, pt_notified,
                   batch_out, wiredKept>>

\* Line 114: the iterator over self._subscriptions.items() is asked for the
\* next user; the iterator over that user's dict is made (line 115).
NextUser ==
    /\ pt_pc = "users"
    /\ LET b == batch[1]
       IN  IF Len(subscriptions) # b.outer_used
           THEN WiredRaise("RuntimeError", b)
           ELSE IF b.user = Len(subscriptions)
           THEN /\ pt_pc' = "return"
                /\ UNCHANGED <<subscriptions, cooldowns, pt_ticks, pt_triggered,
                               pt_notified, batch, batch_out, wiredKept>>
           ELSE /\ pt_pc' = "subs"
                /\ batch' = Some([b EXCEPT !.user = @ + 1, !.sub = 0,
                                    !.inner_used = Len(subscriptions[b.user + 1][2])])
                /\ UNCHANGED <<subscriptions, cooldowns, pt_ticks, pt_triggered,
                               pt_notified, batch_out, wiredKept>>

\* Lines 115-145: the iterator over user_subs.items() is asked for the next
\* subscription, which is evaluated; each of its alerts that is not in
\* cooldown is recorded, appended to `triggered` and handed to the listener.
NextSub ==
    /\ pt_pc = "subs"
    /\ LET b         == batch[1]
           user_id   == subscriptions[b.user][1]
           user_subs == subscriptions[b.user][2]
       IN  IF Len(user_subs) # b.inner_used
           THEN WiredRaise("RuntimeError", b)
           ELSE IF b.sub = Len(user_subs)
           THEN /\ pt_pc' = "users"
                /\ UNCHANGED <<subscriptions, cooldowns, pt_ticks, pt_triggered,
                               pt_notified, batch, batch_out, wiredKept>>
           ELSE LET sub   == user_subs[b.sub + 1][2]
                    moved == [b EXCEPT !.sub = @ + 1]
                IN  IF ~Evaluated(sub, pt_ticks)
                    THEN /\ batch' = Some(moved)
                         /\ UNCHANGED <<subscriptions, cooldowns, pt_pc, pt_ticks,
                                        pt_triggered, pt_notified, batch_out, wiredKept>>
                    ELSE IF analyze_tick_raises(pt_ticks[sub.symbol], sub.price_threshold_pct)
                    THEN WiredRaise("TypeError", moved)
                    ELSE LET alerts  == analyze_tick(pt_ticks[sub.symbol],
                                                     Some(sub.price_threshold_pct),
                                                     Some(sub.volume_threshold_multiplier))
                             passing == SelectSeq(alerts, LAMBDA a :
                                            ~is_in_cooldown(AlertKey(user_id, a), clock))
                             keys    == {AlertKey(user_id, passing[i]) : i \in 1..Len(passing)}
                         IN  /\ cooldowns' = set_cooldowns(keys, clock)
                             /\ pt_triggered' = pt_triggered \o
                                    [i \in 1..Len(passing) |->
                                        [user_id |-> user_id, alert |-> passing[i]]]
                             /\ pt_notified' = pt_notified \o
                                    NotifyAll(alert_listeners, user_id, passing)
                             /\ batch' = Some([moved EXCEPT
                                    !.evaluated = @ \cup {<<user_id, sub.symbol>>},
                                    !.broadcasts = @ \o on_alert_triggered(user_id, passing)])
                             /\ UNCHANGED <<subscriptions, pt_pc, pt_ticks, batch_out,
                                            wiredKept>>

\* The subscriptions process_ticks has to evaluate for the batch and on which
\* the detector does not raise.
SoundSubs(subs, ticks) ==
    {q \in PairsOf(subs) :
        LET sub == DictGet(DictGet(subs, q[1]), q[2])
        IN  /\ Evaluated(sub, ticks)
            /\ ~analyze_tick_raises(ticks[sub.symbol], sub.price_threshold_pct)}

\* What a finished on_tick_batch call leaves behind for the observer.
BatchAccount(b, error, triggered, broadcasts) ==
    [error |-> error, triggered |-> triggered, broadcasts |-> broadcasts,
     evaluated |-> b.evaluated, sound |-> SoundSubs(subscriptions, pt_ticks),
     stable |-> b.stable, changes |-> b.changes]

\* Line 147 and run.py lines 116-118: process_ticks returns `triggered` and
\* on_tick_batch broadcasts every entry of it.
BatchReturn ==
    /\ pt_pc = "return"
    /\ pt_pc' = "idle"
    /\ batch_out' = Some(BatchAccount(batch[1], None, pt_triggered,
                                      batch[1].broadcasts \o broadcast_triggered(pt_triggered)))
    /\ batch' = None
    /\ pt_ticks' = <<>>
    /\ pt_triggered' = <<>>
    /\ pt_notified' = <<>>
    /\ UNCHANGED <<subscriptions, cooldowns, wiredKept>>

\* The exception leaves process_ticks and on_tick_batch; the engine's loop
\* over its tick listeners logs it (market_engine.py lines 107-111). Nothing
\* is returned, so nothing more is broadcast.
BatchRaised ==
    /\ pt_pc = "raised"
    /\ pt_pc' = "idle"
    /\ batch_out' = Some(BatchAccount(batch[1], batch[1].error, <<>>, batch[1].broadcasts))
    /\ batch' = None
    /\ pt_ticks' = <<>>
    /\ pt_triggered' = <<>>
    /\ pt_notified' = <<>>
    /\ UNCHANGED <<subscriptions, cooldowns, wiredKept>>

\* The account of the call in progress after a request thread has touched
\* the subscription of (user_id, symbol).
Touched(user_id, symbol) ==
    IF batch = None THEN None
    ELSE Some([batch[1] EXCEPT !.changes = @ + 1,
                               !.stable = @ \ {<<user_id, symbol>>}])

WithinChanges == IF batch = None THEN TRUE ELSE batch[1].changes < MaxConcurrentChanges

\* handle_set_threshold on a request thread, at any point of the worker's call.
SetThreshold(user_id, symbol, price_threshold_pct) ==
    /\ WithinChanges
    /\ AddSubscription(user_id, symbol, price_threshold_pct, OwnVolumeThreshold(user_id))
    /\ batch' = Touched(user_id, upper(symbol))
    /\ UNCHANGED batch_out

\* remove_subscription on another thread, at any point of the worker's call.
DropThreshold(user_id, symbol) ==
    /\ WithinChanges
    /\ RemoveSubscription(user_id, symbol)
    /\ batch' = Touched(user_id, upper(symbol))
    /\ UNCHANGED batch_out

\* run.py: a fresh manager, on_alert_triggered registered as its one listener.
InitWired ==
    /\ InitDetectorIdle
    /\ InitEngineIdle
    /\ InitSimulatorIdle /\ InitFnIdle /\ InitReaderIdle /\ InitSessionIdle /\ InitDayIdle
    /\ InitWireIdle
    /\ subscriptions = <<>>
    /\ cooldowns = <<>>
    /\ cooldown_seconds = ALERT_COOLDOWN_SECONDS
    /\ alert_listeners = <<1>>
    /\ clock = ALERT_COOLDOWN_SECONDS
    /\ pt_pc = "idle"
    /\ pt_ticks = <<>>
    /\ pt_pos = 0
    /\ pt_alerts = <<>>
    /\ pt_triggered = <<>>
    /\ pt_notified = <<>>
    /\ last_emit = <<>>
    /\ prev_emit = <<>>
    /\ last_suppressed = None
    /\ sub_out = None

wiredRest == <<detVars, engVars, engHist, sub_out, simVars, fnVars, rdVars, sesVars, dayVars>>

NextWired ==
    \/ \E ticks \in WiredBatches : OnTickBatch(ticks) /\ UNCHANGED wiredRest
    \/ NextUser /\ UNCHANGED wiredRest
    \/ NextSub /\ UNCHANGED wiredRest
    \/ BatchReturn /\ UNCHANGED wiredRest
    \/ BatchRaised /\ UNCHANGED wiredRest
    \/ \E q \in WiredPairs : \E p \in WiredPriceThresholds(q[1]) :
          SetThreshold(q[1], q[2], p) /\ UNCHANGED wiredRest
    \/ \E q \in WiredPairs : DropThreshold(q[1], q[2]) /\ UNCHANGED wiredRest

SpecWired == InitWired /\ [][NextWired]_vars

\* How often a message is in a sequence of messages.
TimesIn(messages, m) == Cardinality({i \in 1..Len(messages) : messages[i] = m})

\* C39: in the wired pipeline every alert process_ticks emits for a batch is
\* broadcast to the clients exactly once.
C39_EachAlertBroadcastOnce ==
    (batch_out # None /\ batch_out[1].error = None)
        => \A i \in 1..Len(batch_out[1].triggered) :
              TimesIn(batch_out[1].broadcasts,
                      broadcast_alert(batch_out[1].triggered[i].user_id,
                                      batch_out[1].triggered[i].alert)) = 1

\* What the code does: each emitted alert goes out twice, once from the
\* listener and once from on_tick_batch.
EachAlertBroadcastTwice ==
    (batch_out # None /\ batch_out[1].error = None)
        => \A i \in 1..Len(batch_out[1].triggered) :
              TimesIn(batch_out[1].broadcasts,
                      broadcast_alert(batch_out[1].triggered[i].user_id,
                                      batch_out[1].triggered[i].alert)) = 2

\* C37: with no change made to the subscriptions during the call, a
\* subscription on which the detector raises does not keep any other
\* subscription of the batch from being evaluated.
C37_OthersStillEvaluated ==
    (batch_out # None /\ batch_out[1].changes = 0)
        => batch_out[1].sound \subseteq batch_out[1].evaluated

\* C38: a call of process_ticks that overlaps add_subscription or
\* remove_subscription is not ended by the dict iteration, and when it
\* returns it has evaluated every subscription that was there, untouched,
\* throughout the call.
C38_ConcurrentChangeIsHarmless ==
    batch_out # None
        => /\ batch_out[1].error # Some("RuntimeError")
           /\ batch_out[1].error = None
                 => (batch_out[1].sound \cap batch_out[1].stable)
                        \subseteq batch_out[1].evaluated

\* What the code does keep: a call that returns has evaluated every
\* subscription that was there throughout.
ReturnedCallsEvaluatedAll ==
    (batch_out # None /\ batch_out[1].error = None)
        => (batch_out[1].sound \cap batch_out[1].stable) \subseteq batch_out[1].evaluated

====
